---- MODULE Spec2Model ----
(***************************************************************************)
(* capnp-diff: the schema differ (SchemaDiffer), the type compatibility    *)
(* classification, value equality, the sort / packaging of schemaDiff and  *)
(* the source positions locateChanges adds in schemaDiffWithSourceInfo.    *)
(*                                                                         *)
(* Encoding.  A JavaScript string is a sequence of integers (its           *)
(* characters in collation order); `undefined` is the value Undefined.     *)
(* Node ids are positive integers; 0 is the differ's "no current file".    *)
(* A thrown exception is an event [which |-> "throw"] in the sequence of   *)
(* emitted events: schemaDiff returns nothing as soon as one is present.   *)
(***************************************************************************)
EXTENDS Integers, Sequences, FiniteSets, TLC

VARIABLES
    source,            \* the old CodeGeneratorRequest
    target,            \* the new CodeGeneratorRequest
    allChanges,        \* mod.ts: the changes pushed by the differ, then sorted in place
    changedFileNames,  \* SchemaDiffer.changedFileNames, a Map in insertion order
    result,            \* the SchemaDiff returned: [changes, files]
    fileSystem,        \* the files Deno.readFile can read: [path, contents]
    pc                 \* "diff" -> "sort" -> "package" -> "done" (-> "located" or
                       \* "rejected"), or "threw"

vars == <<source, target, allChanges, changedFileNames, result, fileSystem, pc>>

-----------------------------------------------------------------------------
\* Strings

Undefined == <<-1>>

\* String(undefined), which localeCompare compares against when its argument is undefined.
UndefinedText == <<5>>

RECURSIVE localeCompare(_, _)
localeCompare(a, b) ==
    IF a = <<>> /\ b = <<>> THEN 0
    ELSE IF a = <<>> THEN -1
    ELSE IF b = <<>> THEN 1
    ELSE IF Head(a) < Head(b) THEN -1
    ELSE IF Head(a) > Head(b) THEN 1
    ELSE localeCompare(Tail(a), Tail(b))

slice(s, n) == IF n >= Len(s) THEN <<>> ELSE SubSeq(s, n + 1, Len(s))

Min(a, b) == IF a < b THEN a ELSE b

RECURSIVE Flatten(_)
Flatten(ss) == IF ss = <<>> THEN <<>> ELSE Head(ss) \o Flatten(Tail(ss))

-----------------------------------------------------------------------------
\* Schema values: types, values, nodes

VoidType == [which |-> "void"]
Prim(w) == [which |-> w]
EnumType(id) == [which |-> "enum", typeId |-> id]
ListType(t) == [which |-> "list", elementType |-> t]
StructType(id, scopes) == [which |-> "struct", typeId |-> id, brandScopes |-> scopes]
InterfaceType(id, scopes) == [which |-> "interface", typeId |-> id, brandScopes |-> scopes]

VoidValue == [which |-> "void"]
\* Float payloads: NaN is the one float that is not === to itself.
NaN == 0 - 1

NoField ==
    [name |-> <<>>, which |-> "slot", ordinalIsExplicit |-> FALSE, ordinalExplicit |-> 0,
     type |-> VoidType, defaultValue |-> VoidValue, typeId |-> 0]

SlotField(name, ord, type, value) ==
    [NoField EXCEPT !.name = name, !.ordinalIsExplicit = TRUE, !.ordinalExplicit = ord,
                    !.type = type, !.defaultValue = value]

GroupField(name, typeId) ==
    [NoField EXCEPT !.name = name, !.which = "group", !.typeId = typeId]

Method(name, paramId, resultId, brands, implicit) ==
    [name |-> name, paramStructType |-> paramId, resultStructType |-> resultId,
     paramBrandScopes |-> brands, resultBrandScopes |-> 0, implicitParameters |-> implicit]

NoNode ==
    [id |-> 0, which |-> "file", displayName |-> <<>>, displayNamePrefixLength |-> 0,
     scopeId |-> 0, startByte |-> 0, endByte |-> 0, nestedNodes |-> <<>>,
     fields |-> <<>>, enumerants |-> <<>>, methods |-> <<>>,
     type |-> VoidType, value |-> VoidValue, targets |-> {}]

Nested(name, id) == [name |-> name, id |-> id]

-----------------------------------------------------------------------------
\* Node and location indexes (SchemaDiffer constructor)

oldSchema == source
newSchema == target

\* Map.get after `for (const node of schema.nodes) nodeById.set(node.id, node)`.
HasNode(schema, id) == \E i \in 1..Len(schema.nodes) : schema.nodes[i].id = id

NodeById(schema, id) ==
    LET hits == {i \in 1..Len(schema.nodes) : schema.nodes[i].id = id}
    IN  schema.nodes[CHOOSE i \in hits : \A j \in hits : j <= i]

\* nodeId << 64n | BigInt(memberOrdinal), written as its high and low 64 bits.
memberId(nodeId, memberOrdinal) == <<nodeId, memberOrdinal>>
nodeKey(id) == <<0, id>>

\* The nodeLocById.set calls of indexNodes, in order.
RECURSIVE memberLocs(_, _, _)
memberLocs(id, members, i) ==
    IF i > Len(members) THEN <<>>
    ELSE (IF members[i].startByte + members[i].endByte # 0
          THEN <<[key |-> memberId(id, i - 1),
                  startByte |-> members[i].startByte, endByte |-> members[i].endByte]>>
          ELSE <<>>)
         \o memberLocs(id, members, i + 1)

RECURSIVE indexLocs(_)
indexLocs(sourceInfo) ==
    IF sourceInfo = <<>> THEN <<>>
    ELSE LET s == Head(sourceInfo)
         IN  <<[key |-> nodeKey(s.id), startByte |-> s.startByte, endByte |-> s.endByte]>>
             \o memberLocs(s.id, s.members, 1)
             \o indexLocs(Tail(sourceInfo))

HasLoc(schema, key) ==
    \E i \in 1..Len(indexLocs(schema.sourceInfo)) : indexLocs(schema.sourceInfo)[i].key = key

LocById(schema, key) ==
    LET locs == indexLocs(schema.sourceInfo)
        hits == {i \in 1..Len(locs) : locs[i].key = key}
        e == locs[CHOOSE i \in hits : \A j \in hits : j <= i]
    IN  [startByte |-> e.startByte, endByte |-> e.endByte]

Loc(node) == [startByte |-> node.startByte, endByte |-> node.endByte]

newNodeLoc(node) ==
    IF HasLoc(newSchema, nodeKey(node.id)) THEN LocById(newSchema, nodeKey(node.id)) ELSE Loc(node)
oldNodeLoc(node) ==
    IF HasLoc(oldSchema, nodeKey(node.id)) THEN LocById(oldSchema, nodeKey(node.id)) ELSE Loc(node)
newMemberLoc(node, memberOrdinal) ==
    IF HasLoc(newSchema, memberId(node.id, memberOrdinal))
    THEN LocById(newSchema, memberId(node.id, memberOrdinal)) ELSE Loc(node)
oldMemberLoc(node, memberOrdinal) ==
    IF HasLoc(oldSchema, memberId(node.id, memberOrdinal))
    THEN LocById(oldSchema, memberId(node.id, memberOrdinal)) ELSE Loc(node)

shortName(node) == slice(node.displayName, node.displayNamePrefixLength)

-----------------------------------------------------------------------------
\* Type compatibility

NumericTextData ==
    {"int8", "int16", "int32", "int64", "uint8", "uint16", "uint32", "uint64",
     "float32", "float64", "text", "data"}

RECURSIVE typeCompatibility(_, _)

\* The same switch answering Compatible for UInt16 -> enum as well.
differentKindsCompatibilityBothWays(oldType, newType) ==
    IF oldType.which = "uint16" /\ newType.which = "enum" THEN "Compatible"
    ELSE IF newType.which = "anyPointer"
    THEN (IF oldType.which \in {"text", "data", "list", "struct", "interface"}
          THEN "Compatible" ELSE "Incompatible")
    ELSE IF newType.which = "uint16"
    THEN (IF oldType.which = "enum" THEN "Compatible" ELSE "Incompatible")
    ELSE IF newType.which = "data"
    THEN (IF oldType.which = "text"
             \/ (oldType.which = "list" /\ oldType.elementType.which = "uint8")
          THEN "Compatible" ELSE "Incompatible")
    ELSE IF newType.which = "list"
    THEN (IF oldType.which = "data" /\ newType.elementType.which = "uint8"
          THEN "Compatible" ELSE "Incompatible")
    ELSE "Incompatible"

\* The switch on newWhich for two types of different kinds.
differentKindsCompatibility(oldType, newType) ==
    LET oldWhich == oldType.which
        newWhich == newType.which
    IN  CASE newWhich = "anyPointer" ->
                IF oldWhich \in {"text", "data", "list", "struct", "interface"}
                THEN "Compatible" ELSE "Incompatible"
          [] newWhich = "uint16" ->
                IF oldWhich = "enum" THEN "Compatible" ELSE "Incompatible"
          [] newWhich = "data" ->
                IF oldWhich = "text"
                   \/ (oldWhich = "list" /\ oldType.elementType.which = "uint8")
                THEN "Compatible" ELSE "Incompatible"
          [] newWhich = "list" ->
                IF oldWhich = "data" /\ newType.elementType.which = "uint8"
                THEN "Compatible" ELSE "Incompatible"
          [] OTHER -> "Incompatible"

\* The upgrade of the elements of a list whose kinds differ with List(Bool) let through.
listUpgradeCompatibilityOfBool(oldElementType, newElementType) ==
    IF newElementType.which # "struct" THEN "Incompatible"
    ELSE LET newStruct == NodeById(newSchema, newElementType.typeId)
         IN
         IF newStruct.fields = <<>> \/ newStruct.fields[1].which # "slot"
         THEN "Incompatible"
         ELSE LET newStructFirstFieldType == newStruct.fields[1].type
              IN
              IF oldElementType.which \in NumericTextData \cup {"bool"}
              THEN IF oldElementType.which = newStructFirstFieldType.which
                   THEN "Compatible" ELSE "Incompatible"
              ELSE IF oldElementType.which = "list"
              THEN typeCompatibility(oldElementType, newStructFirstFieldType)
              ELSE "Incompatible"

\* The LIST case for element types of different kinds: the upgrade of List(T) to a
\* list of structs that start with a T.
listUpgradeCompatibility(oldElementType, newElementType) ==
    IF newElementType.which # "struct" THEN "Incompatible"
    ELSE LET newStruct == NodeById(newSchema, newElementType.typeId)
         IN
         IF newStruct.fields = <<>> \/ newStruct.fields[1].which # "slot"
         THEN "Incompatible"
         ELSE LET newStructFirstFieldType == newStruct.fields[1].type
              IN
              IF oldElementType.which \in NumericTextData
              THEN IF oldElementType.which = newStructFirstFieldType.which
                   THEN "Compatible" ELSE "Incompatible"
              ELSE IF oldElementType.which = "list"
              THEN typeCompatibility(oldElementType, newStructFirstFieldType)
              ELSE "Incompatible"

typeCompatibility(oldType, newType) ==
    LET oldWhich == oldType.which
        newWhich == newType.which
    IN
    IF oldWhich # newWhich THEN differentKindsCompatibility(oldType, newType)
    ELSE
        CASE oldWhich = "enum" ->
                IF oldType.typeId = newType.typeId THEN "Same" ELSE "Incompatible"
          [] oldWhich = "list" ->
                IF oldType.elementType.which = newType.elementType.which
                THEN typeCompatibility(oldType.elementType, newType.elementType)
                ELSE listUpgradeCompatibility(oldType.elementType, newType.elementType)
          [] oldWhich \in {"struct", "interface"} ->
                IF oldType.brandScopes + newType.brandScopes # 0
                THEN "throw"
                ELSE IF oldType.typeId = newType.typeId THEN "Same" ELSE "Incompatible"
          [] OTHER -> "Same"

-----------------------------------------------------------------------------
\* Message memory (capnp-es: Segment, Pointer and the `utils` the value equality calls)
\*
\* A message is a sequence of segments and a segment a sequence of bytes: the byte at
\* byte offset a is element a + 1.  A Pointer object is a place in a segment.  A read
\* outside the segment is a RangeError of the DataView, and `new Pointer` refuses a
\* byte offset outside 0..byteLength: both are the outcome "throw" of the caller.

Pointer(message, segmentId, byteOffset) ==
    [message |-> message, segmentId |-> segmentId, byteOffset |-> byteOffset]

segmentOf(pointer) == pointer.message[pointer.segmentId + 1]

readable(segment, byteOffset, n) == byteOffset >= 0 /\ byteOffset + n <= Len(segment)

\* new Pointer(segment, byteOffset) does not throw.
constructible(segment, byteOffset) == byteOffset >= 0 /\ byteOffset <= Len(segment)

\* The pointer's own word can be read.
hasWord(pointer) ==
    /\ pointer.segmentId >= 0
    /\ pointer.segmentId < Len(pointer.message)
    /\ readable(segmentOf(pointer), pointer.byteOffset, 8)

\* Segment.getUint32, little-endian, as its four bytes.
getUint32(segment, byteOffset) == SubSeq(segment, byteOffset + 1, byteOffset + 4)

getUint16(segment, byteOffset) == segment[byteOffset + 1] + 256 * segment[byteOffset + 2]

getInt32(segment, byteOffset) ==
    LET b == getUint32(segment, byteOffset)
    IN  b[1] + 256 * b[2] + 65536 * b[3] + 16777216 * (IF b[4] >= 128 THEN b[4] - 256 ELSE b[4])

ZeroUint32 == <<0, 0, 0, 0>>

\* Segment.isWordZero at the pointer's word.
isNull(pointer) ==
    \A k \in 1..8 : segmentOf(pointer)[pointer.byteOffset + k] = 0

\* PointerType: STRUCT 0, LIST 1, FAR 2, OTHER 3 (the two low bits of the word).
getPointerType(pointer) ==
    CASE segmentOf(pointer)[pointer.byteOffset + 1] % 4 = 0 -> "STRUCT"
      [] segmentOf(pointer)[pointer.byteOffset + 1] % 4 = 1 -> "LIST"
      [] segmentOf(pointer)[pointer.byteOffset + 1] % 4 = 2 -> "FAR"
      [] segmentOf(pointer)[pointer.byteOffset + 1] % 4 = 3 -> "OTHER"

\* `o & 2 ? o >> 3 : o >> 2` on the signed low half of the word.
getOffsetWords(pointer) ==
    LET o == getInt32(segmentOf(pointer), pointer.byteOffset)
    IN  IF (o \div 2) % 2 = 1 THEN o \div 8 ELSE o \div 4

getStructDataWords(pointer) == getUint16(segmentOf(pointer), pointer.byteOffset + 4)

getStructPointerLength(pointer) == getUint16(segmentOf(pointer), pointer.byteOffset + 6)

\* ListElementSize: the three low bits of the high half.
getListElementSize(pointer) ==
    LET size == segmentOf(pointer)[pointer.byteOffset + 5] % 8
    IN  CASE size = 0 -> "VOID" [] size = 1 -> "BIT" [] size = 2 -> "BYTE"
          [] size = 3 -> "BYTE_2" [] size = 4 -> "BYTE_4" [] size = 5 -> "BYTE_8"
          [] size = 6 -> "POINTER" [] size = 7 -> "COMPOSITE"

\* getUint32(byteOffset + 4) >>> 3.
getListLength(pointer) ==
    LET b == getUint32(segmentOf(pointer), pointer.byteOffset + 4)
    IN  (b[1] \div 8) + 32 * b[2] + 8192 * b[3] + 2097152 * b[4]

\* The byte length of one element; NaN for bits and for composite elements.
getListElementByteLength(elementSize) ==
    CASE elementSize = "VOID" -> 0
      [] elementSize = "BIT" -> NaN
      [] elementSize = "BYTE" -> 1
      [] elementSize = "BYTE_2" -> 2
      [] elementSize = "BYTE_4" -> 4
      [] elementSize \in {"BYTE_8", "POINTER"} -> 8
      [] elementSize = "COMPOSITE" -> NaN

\* followFars: the landing pad of a far pointer (the second word of the pad of a double
\* far), the pointer itself otherwise.  A far pointer to a segment the message does
\* not hold gives a pointer nothing can be read from.
followFars(pointer) ==
    IF getPointerType(pointer) # "FAR" THEN pointer
    ELSE LET word == getUint32(segmentOf(pointer), pointer.byteOffset)
             id == getUint32(segmentOf(pointer), pointer.byteOffset + 4)
             isDoubleFar == (word[1] \div 4) % 2 = 1
             targetWordOffset == (word[1] \div 8) + 32 * word[2] + 8192 * word[3] + 2097152 * word[4]
         IN  IF id[2] + id[3] + id[4] # 0 \/ id[1] >= Len(pointer.message)
             THEN Pointer(pointer.message, 0 - 1, 0)
             ELSE Pointer(pointer.message, id[1],
                          targetWordOffset * 8 + (IF isDoubleFar THEN 8 ELSE 0))

\* getTargetPointerType does not throw: the target can be read and is not a far pointer.
isTarget(resolved) == hasWord(resolved) /\ getPointerType(resolved) # "FAR"

hasTargetPointerType(pointer) == hasWord(pointer) /\ isTarget(followFars(pointer))

getTargetPointerType(pointer) == getPointerType(followFars(pointer))

\* A pointer nothing can be read from: what a library call that throws hands to the
\* comparison, whose first read then gives the outcome "throw".
Unreadable(message) == Pointer(message, 0 - 1, 0)

\* `new Pointer(segment, byteOffset + bytes)` from a pointer object.
advance(pointer, bytes) ==
    IF \/ pointer.segmentId < 0
       \/ ~constructible(segmentOf(pointer), pointer.byteOffset + bytes)
    THEN Unreadable(pointer.message)
    ELSE [pointer EXCEPT !.byteOffset = @ + bytes]

\* getContent of a followed pointer that is not the element of a composite list: the
\* word after the pointer plus its offset, and one word further (past the tag) when it
\* is a composite list.
contentOf(resolved) ==
    IF getPointerType(resolved) = "LIST" /\ getListElementSize(resolved) = "COMPOSITE"
    THEN [advance(resolved, 8 + getOffsetWords(resolved) * 8) EXCEPT !.byteOffset = @ + 8]
    ELSE advance(resolved, 8 + getOffsetWords(resolved) * 8)

getContent(pointer) ==
    IF hasTargetPointerType(pointer) THEN contentOf(followFars(pointer))
    ELSE Unreadable(pointer.message)

\* The tag word of a composite list.
tagOf(resolved) == [contentOf(resolved) EXCEPT !.byteOffset = @ - 8]

\* getTargetListLength: the element count of the tag word of a composite list, the
\* count of the pointer otherwise.
hasListLength(resolved) ==
    /\ hasWord(resolved)
    /\ getListElementSize(resolved) = "COMPOSITE"
          => isTarget(resolved) /\ hasWord(tagOf(resolved))

hasTargetListLength(pointer) == hasWord(pointer) /\ hasListLength(followFars(pointer))

listLengthOf(resolved) ==
    IF getListElementSize(resolved) = "COMPOSITE"
    THEN getOffsetWords(tagOf(resolved))
    ELSE getListLength(resolved)

getTargetListLength(pointer) == listLengthOf(followFars(pointer))

\* utils.getPointer(index, struct): the bounds check against the struct's pointer
\* count, then the index-th word of its pointer section.
pointerOf(index, resolved) ==
    IF index < 0 \/ index >= getStructPointerLength(resolved)
    THEN Unreadable(resolved.message)
    ELSE advance(contentOf(resolved), getStructDataWords(resolved) * 8 + index * 8)

getPointer(index, struct) ==
    IF hasTargetPointerType(struct) THEN pointerOf(index, followFars(struct))
    ELSE Unreadable(struct.message)

\* AnyPointerList.get(index): the index-th word of the list's content.
getElement(index, list) == advance(getContent(list), index * 8)

-----------------------------------------------------------------------------
\* Value equality

RECURSIVE structsAreEqual(_, _)
RECURSIVE listsAreEqual(_, _)
RECURSIVE pointersAreEqual(_, _)
RECURSIVE isDefaultPointer(_)

\* The early returns of the comparisons: the first outcome that is not "true" is the
\* result, and what follows it is not evaluated.
orElse(outcome, rest) == IF outcome # "true" THEN outcome ELSE rest

\* What structsAreEqual and isDefaultPointer read from a struct pointer before their
\* loops: `new Struct(segment, offset)` is the object the pointer loops index.
structLocals(pointer) ==
    [words |-> getStructDataWords(pointer),
     offset |-> getOffsetWords(pointer),
     segment |-> segmentOf(pointer),
     pointers |-> getStructPointerLength(pointer),
     struct |-> Pointer(pointer.message, pointer.segmentId, getOffsetWords(pointer))]

\* What listsAreEqual reads from a list pointer before its loops.
listLocals(pointer) ==
    [length |-> getTargetListLength(pointer),
     elementSize |-> getListElementSize(pointer),
     offset |-> getOffsetWords(pointer),
     segment |-> segmentOf(pointer),
     list |-> Pointer(pointer.message, pointer.segmentId, getOffsetWords(pointer))]

\* The loop over the data words in common (structsAreEqual), from iteration i.
RECURSIVE commonWordsAreEqual(_, _, _, _, _, _)
commonWordsAreEqual(oldSegment, oldOffset, newSegment, newOffset, i, minWords) ==
    IF i >= minWords THEN "true"
    ELSE IF \/ ~readable(oldSegment, oldOffset + i * 4, 4)
            \/ ~readable(newSegment, newOffset + i * 4, 4)
            \/ ~readable(oldSegment, oldOffset + (i + 1) * 4, 4)
            \/ ~readable(newSegment, newOffset + (i + 1) * 4, 4)
    THEN "throw"
    ELSE LET firstHalfIsSame ==
                 getUint32(oldSegment, oldOffset + i * 4) = getUint32(newSegment, newOffset + i * 4)
             secondHalfIsSame ==
                 getUint32(oldSegment, oldOffset + (i + 1) * 4)
                     = getUint32(newSegment, newOffset + (i + 1) * 4)
         IN  IF ~firstHalfIsSame \/ ~secondHalfIsSame THEN "false"
             ELSE commonWordsAreEqual(oldSegment, oldOffset, newSegment, newOffset, i + 1, minWords)

\* The loop over the excess data words (structsAreEqual) and over the data words of
\* isDefaultPointer, from iteration i.
RECURSIVE wordsAreZero(_, _, _, _)
wordsAreZero(largerSegment, largerOffset, i, maxWords) ==
    IF i >= maxWords THEN "true"
    ELSE IF ~readable(largerSegment, largerOffset + i * 4, 4) THEN "throw"
    ELSE IF getUint32(largerSegment, largerOffset + i * 4) # ZeroUint32 THEN "false"
    ELSE IF ~readable(largerSegment, largerOffset + (i + 1) * 4, 4) THEN "throw"
    ELSE IF getUint32(largerSegment, largerOffset + (i + 1) * 4) # ZeroUint32 THEN "false"
    ELSE wordsAreZero(largerSegment, largerOffset, i + 1, maxWords)

\* The loop over the pointers in common (structsAreEqual), from iteration i.
RECURSIVE commonPointersAreEqual(_, _, _, _)
commonPointersAreEqual(oldStruct, newStruct, i, minPointers) ==
    IF i >= minPointers THEN "true"
    ELSE orElse(pointersAreEqual(getPointer(i, oldStruct), getPointer(i, newStruct)),
                commonPointersAreEqual(oldStruct, newStruct, i + 1, minPointers))

\* The loop over the excess pointers (structsAreEqual) and over the pointers of
\* isDefaultPointer, from iteration i.
RECURSIVE pointersAreDefault(_, _, _)
pointersAreDefault(largerStruct, i, maxPointers) ==
    IF i >= maxPointers THEN "true"
    ELSE orElse(isDefaultPointer(getPointer(i, largerStruct)),
                pointersAreDefault(largerStruct, i + 1, maxPointers))

\* structsAreEqual past its null check, on what it read from the two pointers.
structLocalsAreEqual(old, new) ==
    LET minWords == Min(old.words, new.words)
        larger == IF old.words > new.words THEN old ELSE new
        minPointers == Min(old.pointers, new.pointers)
        largerStruct == IF old.pointers > new.pointers THEN old.struct ELSE new.struct
        maxPointers == IF old.pointers > new.pointers THEN old.pointers ELSE new.pointers
    IN  orElse(commonWordsAreEqual(old.segment, old.offset, new.segment, new.offset,
                                   0, minWords),
        orElse(wordsAreZero(larger.segment, larger.offset, minWords, larger.words),
        orElse(IF \/ ~constructible(old.segment, old.offset)
                  \/ ~constructible(new.segment, new.offset)
               THEN "throw" ELSE "true",
        orElse(commonPointersAreEqual(old.struct, new.struct, 0, minPointers),
               pointersAreDefault(largerStruct, minPointers, maxPointers)))))

structsAreEqual(oldPointer, newPointer) ==
    IF ~hasWord(oldPointer) \/ ~hasWord(newPointer) THEN "throw"
    ELSE IF isNull(oldPointer) /\ isNull(newPointer) THEN "true"
    ELSE structLocalsAreEqual(structLocals(oldPointer), structLocals(newPointer))

\* The loop over the words of a list of bits or bytes (listsAreEqual), from iteration i;
\* eighths is eight times wordsLength.
RECURSIVE listWordsAreEqual(_, _, _, _, _, _)
listWordsAreEqual(oldSegment, oldOffset, newSegment, newOffset, i, eighths) ==
    IF eighths = NaN \/ i * 8 >= eighths THEN "true"
    ELSE IF \/ ~readable(oldSegment, oldOffset + i * 4, 4)
            \/ ~readable(newSegment, newOffset + i * 4, 4)
    THEN "throw"
    ELSE IF getUint32(oldSegment, oldOffset + i * 4) # getUint32(newSegment, newOffset + i * 4)
    THEN "false"
    ELSE IF \/ ~readable(oldSegment, oldOffset + (i + 1) * 4, 4)
            \/ ~readable(newSegment, newOffset + (i + 1) * 4, 4)
    THEN "throw"
    ELSE IF getUint32(oldSegment, oldOffset + (i + 1) * 4)
               # getUint32(newSegment, newOffset + (i + 1) * 4)
    THEN "false"
    ELSE listWordsAreEqual(oldSegment, oldOffset, newSegment, newOffset, i + 1, eighths)

\* The loop over the elements of a list of pointers (listsAreEqual), from iteration i.
RECURSIVE listPointersAreEqual(_, _, _, _)
listPointersAreEqual(oldList, newList, i, oldLength) ==
    IF i >= oldLength THEN "true"
    ELSE orElse(pointersAreEqual(getElement(i, oldList), getElement(i, newList)),
                listPointersAreEqual(oldList, newList, i + 1, oldLength))

\* listsAreEqual past its null check, on what it read from the two pointers.
listLocalsAreEqual(old, new) ==
    LET byteLength == getListElementByteLength(old.elementSize)
        \* byteLength / 8 + Number(byteLength % 8 !== 0), times eight; NaN stays NaN
        eighths == IF byteLength = NaN THEN NaN
                   ELSE byteLength + (IF byteLength % 8 # 0 THEN 8 ELSE 0)
        bothConstructible ==
            /\ constructible(old.segment, old.offset)
            /\ constructible(new.segment, new.offset)
    IN  IF old.length # new.length THEN "false"
        ELSE IF old.length = 0 THEN "true"
        ELSE IF old.elementSize # new.elementSize THEN "throw"
        ELSE CASE old.elementSize = "VOID" -> "true"
               [] old.elementSize \in {"BIT", "BYTE", "BYTE_2", "BYTE_4", "BYTE_8"} ->
                    listWordsAreEqual(old.segment, old.offset, new.segment, new.offset,
                                      0, eighths)
               [] old.elementSize = "POINTER" ->
                    IF ~bothConstructible THEN "throw"
                    ELSE listPointersAreEqual(old.list, new.list, 0, old.length)
               \* every iteration builds the same two Struct objects but for their
               \* composite index, which structsAreEqual does not read
               [] old.elementSize = "COMPOSITE" ->
                    IF ~bothConstructible THEN "throw"
                    ELSE structsAreEqual(old.list, new.list)

listsAreEqual(oldPointer, newPointer) ==
    IF ~hasWord(oldPointer) \/ ~hasWord(newPointer) THEN "throw"
    ELSE IF isNull(oldPointer) /\ isNull(newPointer) THEN "true"
    ELSE IF ~hasTargetListLength(oldPointer) \/ ~hasTargetListLength(newPointer) THEN "throw"
    ELSE listLocalsAreEqual(listLocals(oldPointer), listLocals(newPointer))

\* The switch of pointersAreEqual on the two target pointer types.
pointersOfTypeAreEqual(oldPointerType, newPointerType, oldPointer, newPointer) ==
    IF oldPointerType # newPointerType THEN "false"
    ELSE CASE oldPointerType = "STRUCT" -> structsAreEqual(oldPointer, newPointer)
           [] oldPointerType = "LIST" -> listsAreEqual(oldPointer, newPointer)
           [] oldPointerType = "OTHER" -> "throw"
           [] oldPointerType = "FAR" -> "throw"

pointersAreEqual(oldPointer, newPointer) ==
    IF ~hasWord(oldPointer) \/ ~hasWord(newPointer) THEN "throw"
    ELSE IF isNull(oldPointer) /\ isNull(newPointer) THEN "true"
    ELSE IF ~hasTargetPointerType(oldPointer) \/ ~hasTargetPointerType(newPointer) THEN "throw"
    ELSE pointersOfTypeAreEqual(getTargetPointerType(oldPointer),
                                getTargetPointerType(newPointer), oldPointer, newPointer)

\* The STRUCT case of isDefaultPointer, on what it read from the pointer.
isDefaultStruct(struct) ==
    orElse(wordsAreZero(struct.segment, struct.offset, 0, struct.words),
           IF struct.pointers = 0 THEN "true"
           ELSE IF ~constructible(struct.segment, struct.offset) THEN "throw"
           ELSE pointersAreDefault(struct.struct, 0, struct.pointers))

isDefaultPointer(pointer) ==
    IF ~hasWord(pointer) THEN "throw"
    ELSE IF isNull(pointer) THEN "true"
    ELSE CASE getPointerType(pointer) = "LIST" ->
                IF getListLength(pointer) = 0 THEN "true" ELSE "false"
           [] getPointerType(pointer) \in {"OTHER", "FAR"} -> "throw"
           [] getPointerType(pointer) = "STRUCT" -> isDefaultStruct(structLocals(pointer))

strictFloatEquals(a, b) == a # NaN /\ b # NaN /\ a = b

\* differentTypesAreEqual taking the enum on either side.
differentTypesAreEqualBothWays(a, b) ==
    IF a.which = "enum" /\ b.which = "uint16"
    THEN (IF a.enum = b.uint16 THEN "true" ELSE "false")
    ELSE IF a.which = "uint16" /\ b.which = "enum"
    THEN (IF a.uint16 = b.enum THEN "true" ELSE "false")
    ELSE "throw"

differentTypesAreEqual(a, b) ==
    IF a.which = "enum" /\ b.which = "uint16"
    THEN (IF a.enum = b.uint16 THEN "true" ELSE "false")
    ELSE "throw"

valuesAreEqual(oldValue, newValue) ==
    LET Bool(p) == IF p THEN "true" ELSE "false"
        w == oldValue.which
    IN
    IF oldValue.which # newValue.which THEN differentTypesAreEqual(oldValue, newValue)
    ELSE CASE w = "void" -> "true"
           [] w = "bool" -> Bool(oldValue.bool = newValue.bool)
           [] w = "int8" -> Bool(oldValue.int8 = newValue.int8)
           [] w = "int16" -> Bool(oldValue.int16 = newValue.int16)
           [] w = "int32" -> Bool(oldValue.int32 = newValue.int32)
           [] w = "int64" -> Bool(oldValue.int64 = newValue.int64)
           [] w = "uint8" -> Bool(oldValue.uint8 = newValue.uint8)
           [] w = "uint16" -> Bool(oldValue.uint16 = newValue.uint16)
           [] w = "uint32" -> Bool(oldValue.uint32 = newValue.uint32)
           [] w = "uint64" -> Bool(oldValue.uint64 = newValue.uint64)
           [] w = "float32" -> Bool(strictFloatEquals(oldValue.float32, newValue.float32))
           [] w = "float64" -> Bool(strictFloatEquals(oldValue.float64, newValue.float64))
           [] w = "text" -> Bool(oldValue.text = newValue.text)
           [] w = "enum" -> Bool(oldValue.enum = newValue.enum)
           [] w = "data" ->
                Bool(/\ Len(oldValue.data) = Len(newValue.data)
                     /\ \A i \in 1..Len(oldValue.data) : oldValue.data[i] = newValue.data[i])
           [] w = "struct" -> structsAreEqual(oldValue.struct, newValue.struct)
           [] w = "list" -> listsAreEqual(oldValue.list, newValue.list)
           [] w = "interface" -> "true"
           [] w = "anyPointer" -> pointersAreEqual(oldValue.anyPointer, newValue.anyPointer)

-----------------------------------------------------------------------------
\* Change records

NoRef == [shortName |-> <<>>, kind |-> "", id |-> 0, ordinal |-> 0]

\* One record shape for every change kind.  `node` is the NodeRef / TypedNodeRef /
\* annotation reference of the kind's group.  `classification` is not a field of the
\* code's change object: it records, for a nodeTypeChanged emitted by diffType, the
\* TypeCompatibility that diffType switched on, so that properties can refer to it.
NoChange ==
    [which |-> "", breakage |-> "", fileId |-> 0, startByte |-> 0, endByte |-> 0,
     node |-> NoRef, oldName |-> <<>>, oldId |-> 0, oldOrdinal |-> 0,
     target |-> "", reason |-> "", classification |-> ""]

Throw(reason) == [NoChange EXCEPT !.which = "throw", !.reason = reason]

addChange(which, breakage, startByte, endByte, value, currentFileId) ==
    [f \in DOMAIN NoChange |->
        IF f \in DOMAIN value THEN value[f]
        ELSE IF f = "which" THEN which
        ELSE IF f = "breakage" THEN breakage
        ELSE IF f = "fileId" THEN currentFileId
        ELSE IF f = "startByte" THEN startByte
        ELSE IF f = "endByte" THEN endByte
        ELSE NoChange[f]]

addChangeAt(which, breakage, loc, value, currentFileId) ==
    addChange(which, breakage, loc.startByte, loc.endByte, value, currentFileId)

toNodeRef(node) ==
    [shortName |-> slice(node.displayName, node.displayNamePrefixLength),
     kind |-> node.which, id |-> node.id, ordinal |-> 0]

fieldToNodeRef(parent, ordinal, name) ==
    [shortName |-> name, kind |-> "field", id |-> parent.id, ordinal |-> ordinal]

fieldToTypedNodeRef(parent, ordinal, name) ==
    [shortName |-> name, kind |-> "field", id |-> parent.id, ordinal |-> ordinal]

enumerantToNodeRef(parent, ordinal, name) ==
    [shortName |-> name, kind |-> "enumerant", id |-> parent.id, ordinal |-> ordinal]

-----------------------------------------------------------------------------
\* Diff types and values

\* diffType with the two breakages exchanged.
diffTypeSwapped(oldType, newType, newTypeLoc, newNodeRef, currentFileId) ==
    LET compatibility == typeCompatibility(oldType, newType)
    IN  CASE compatibility = "throw" ->
                <<Throw("compatibility of generic types is not yet supported")>>
          [] compatibility \in {"Same", "Equivalent"} -> <<>>
          [] compatibility \in {"Compatible", "Incompatible"} ->
                <<addChangeAt("nodeTypeChanged",
                              IF compatibility = "Incompatible" THEN "code" ELSE "wire",
                              newTypeLoc,
                              [node |-> newNodeRef, classification |-> compatibility],
                              currentFileId)>>

\* The change diffType emits (none for Same / Equivalent), or the exception of
\* typeCompatibility, which diffType does not catch.
diffType(oldType, newType, newTypeLoc, newNodeRef, currentFileId) ==
    LET compatibility == typeCompatibility(oldType, newType)
    IN  CASE compatibility = "throw" ->
                <<Throw("compatibility of generic types is not yet supported")>>
          [] compatibility \in {"Same", "Equivalent"} -> <<>>
          [] compatibility \in {"Compatible", "Incompatible"} ->
                <<addChangeAt("nodeTypeChanged",
                              IF compatibility = "Incompatible" THEN "wire" ELSE "code",
                              newTypeLoc,
                              [node |-> newNodeRef, classification |-> compatibility],
                              currentFileId)>>

\* diffType returning true for Same / Equivalent only.
diffTypeIsSame(oldType, newType) ==
    typeCompatibility(oldType, newType) \in {"Same", "Equivalent"}

\* The boolean diffType returns.
diffTypeIsCompatible(oldType, newType) ==
    LET compatibility == typeCompatibility(oldType, newType)
    IN  compatibility \in {"Same", "Equivalent"} \/ compatibility = "Compatible"

diffStructTypes(oldStructId, newStructId, newStructLoc, newNodeRef, currentFileId) ==
    diffType(StructType(oldStructId, 0), StructType(newStructId, 0),
             newStructLoc, newNodeRef, currentFileId)

\* The wrapper without its catch block: the exception of valuesAreEqual leaves the differ.
valueChangesUncaught(equal, loc, ref, changedWhich, changedBreakage, currentFileId) ==
    CASE equal = "throw" -> <<Throw("equality is not yet supported")>>
      [] equal = "false" ->
            <<addChangeAt(changedWhich, changedBreakage, loc, [node |-> ref],
                          currentFileId)>>
      [] equal = "true" -> <<>>

\* The wrapper of valuesAreEqual and the value-changed emission that follows
\* `isCompatible && !this.valuesAreEqual(old, new, addUnsupportedError)`: the wrapper
\* turns an exception of valuesAreEqual into an unsupported change and returns true.
valueChanges(equal, loc, ref, changedWhich, changedBreakage, currentFileId) ==
    CASE equal = "throw" ->
            <<addChangeAt("unsupported", "wire", loc,
                          [node |-> ref, reason |-> "equality is not yet supported"],
                          currentFileId)>>
      [] equal = "false" ->
            <<addChangeAt(changedWhich, changedBreakage, loc, [node |-> ref],
                          currentFileId)>>
      [] equal = "true" -> <<>>

diffValues(oldType, newType, oldValue, newValue, loc, ref, changedWhich, changedBreakage, currentFileId) ==
    IF typeCompatibility(oldType, newType) = "throw"
       \/ ~diffTypeIsCompatible(oldType, newType)
    THEN <<>>
    ELSE valueChanges(valuesAreEqual(oldValue, newValue), loc, ref,
                      changedWhich, changedBreakage, currentFileId)

-----------------------------------------------------------------------------
\* The differ.  currentFileId is the field diffFiles sets around diffNodes.

RECURSIVE diffNodes(_, _, _)

\* The callback diffStructs hands to diffMembers.
diffField(oldField, newField, newOrdinal, newStructNode, currentFileId) ==
    LET newFieldLoc == newMemberLoc(newStructNode, newOrdinal)
        typedRef == fieldToTypedNodeRef(newStructNode, newOrdinal, newField.name)
        ref == fieldToNodeRef(newStructNode, newOrdinal, newField.name)
    IN  IF oldField.which # newField.which
        THEN <<addChangeAt("nodeTypeChanged", "wire", newFieldLoc, [node |-> typedRef],
                           currentFileId)>>
        ELSE IF oldField.which = "slot"
        THEN diffType(oldField.type, newField.type, newFieldLoc, typedRef, currentFileId)
             \o diffValues(oldField.type, newField.type,
                           oldField.defaultValue, newField.defaultValue,
                           newFieldLoc, ref, "fieldDefaultValueChanged", "wire",
                           currentFileId)
        ELSE diffStructTypes(oldField.typeId, newField.typeId, newFieldLoc, typedRef,
                             currentFileId)

\* The callback of diffInterfaces without its two checks of implicit parameters.
diffMethodOfGenerics(oldMethod, newMethod, newOrdinal, newInterfaceNode, currentFileId) ==
    IF newMethod.paramBrandScopes + newMethod.resultBrandScopes # 0
       \/ oldMethod.paramBrandScopes + oldMethod.resultBrandScopes # 0
    THEN <<Throw("generic methods are not yet supported")>>
    ELSE
    LET newMethodLoc == newMemberLoc(newInterfaceNode, newOrdinal)
        inputRef == [shortName |-> newMethod.name, kind |-> "methodInput",
                     id |-> newInterfaceNode.id, ordinal |-> newOrdinal]
        outputRef == [shortName |-> newMethod.name, kind |-> "methodOutput",
                      id |-> newInterfaceNode.id, ordinal |-> newOrdinal]
        generated(oldId, newId) ==
            LET oldNode == NodeById(oldSchema, oldId)
                newNode == NodeById(newSchema, newId)
            IN  IF oldNode.scopeId = 0 \/ newNode.scopeId = 0
                THEN diffNodes(oldNode, newNode, currentFileId)
                ELSE <<>>
    IN  diffStructTypes(oldMethod.paramStructType, newMethod.paramStructType,
                        newMethodLoc, inputRef, currentFileId)
        \o diffStructTypes(oldMethod.resultStructType, newMethod.resultStructType,
                           newMethodLoc, outputRef, currentFileId)
        \o generated(oldMethod.paramStructType, newMethod.paramStructType)
        \o generated(oldMethod.resultStructType, newMethod.resultStructType)

\* The callback diffInterfaces hands to diffMembers.
diffMethod(oldMethod, newMethod, newOrdinal, newInterfaceNode, currentFileId) ==
    IF newMethod.paramBrandScopes + newMethod.resultBrandScopes # 0
       \/ oldMethod.paramBrandScopes + oldMethod.resultBrandScopes # 0
    THEN <<Throw("generic methods are not yet supported")>>
    ELSE IF newMethod.implicitParameters # 0 \/ oldMethod.implicitParameters # 0
    THEN <<Throw("implicit parameters are not yet supported")>>
    ELSE
    LET newMethodLoc == newMemberLoc(newInterfaceNode, newOrdinal)
        inputRef == [shortName |-> newMethod.name, kind |-> "methodInput",
                     id |-> newInterfaceNode.id, ordinal |-> newOrdinal]
        outputRef == [shortName |-> newMethod.name, kind |-> "methodOutput",
                      id |-> newInterfaceNode.id, ordinal |-> newOrdinal]
        generated(oldId, newId) ==
            LET oldNode == NodeById(oldSchema, oldId)
                newNode == NodeById(newSchema, newId)
            IN  IF oldNode.scopeId = 0 \/ newNode.scopeId = 0
                THEN diffNodes(oldNode, newNode, currentFileId)
                ELSE <<>>
    IN  diffStructTypes(oldMethod.paramStructType, newMethod.paramStructType,
                        newMethodLoc, inputRef, currentFileId)
        \o diffStructTypes(oldMethod.resultStructType, newMethod.resultStructType,
                           newMethodLoc, outputRef, currentFileId)
        \o generated(oldMethod.paramStructType, newMethod.paramStructType)
        \o generated(oldMethod.resultStructType, newMethod.resultStructType)

diffMember(kind, oldMember, newMember, newOrdinal, newParentNode, currentFileId) ==
    IF kind = "field"
    THEN diffField(oldMember, newMember, newOrdinal, newParentNode, currentFileId)
    ELSE diffMethod(oldMember, newMember, newOrdinal, newParentNode, currentFileId)

\* `"ordinal" in member && member.ordinal._isExplicit ? member.ordinal.explicit : i`:
\* only a Field has an `ordinal`.
ordinalOf(kind, member, i) ==
    IF kind = "field" /\ member.ordinalIsExplicit THEN member.ordinalExplicit ELSE i

\* newMembers.findIndex((member, j) => j !== i && member.name === name); positions are
\* 0-based as in the code, -1 when there is none.
findOtherIndex(newMembers, i, name) ==
    LET hits == {j \in 0..(Len(newMembers) - 1) : j # i /\ newMembers[j + 1].name = name}
    IN  IF hits = {} THEN -1 ELSE CHOOSE j \in hits : \A k \in hits : j <= k

\* The new-member position the first loop of diffMembers deletes from
\* unseenNewMemberPositions at iteration i.
seenPosition(oldMembers, newMembers, i) ==
    LET j == findOtherIndex(newMembers, i, oldMembers[i + 1].name)
    IN  IF oldMembers[i + 1].name = newMembers[i + 1].name \/ j = -1 THEN i ELSE j

\* Iteration i of the first loop of diffMembers.
diffMemberAt(kind, oldParentNode, oldMembers, newParentNode, newMembers, i, currentFileId) ==
    LET oldMember == oldMembers[i + 1]
        oldOrdinal == ordinalOf(kind, oldMember, i)
        newMember == newMembers[i + 1]
        j == findOtherIndex(newMembers, i, oldMember.name)
        newOrdinal == ordinalOf(kind, newMember, j)
    IN  IF oldMember.name = newMember.name
        THEN diffMember(kind, oldMember, newMember, oldOrdinal, newParentNode, currentFileId)
        ELSE IF j = -1
        THEN <<addChangeAt("nodeRenamed", "code", newMemberLoc(newParentNode, oldOrdinal),
                           [node |-> fieldToNodeRef(newParentNode, oldOrdinal, newMember.name),
                            oldName |-> oldMember.name],
                           currentFileId)>>
             \o diffMember(kind, oldMember, newMember, oldOrdinal, newParentNode,
                           currentFileId)
        ELSE <<addChangeAt("memberOrdinalChanged", "wire",
                           newMemberLoc(newParentNode, newOrdinal),
                           [node |-> fieldToTypedNodeRef(newParentNode, newOrdinal,
                                                         newMember.name),
                            oldOrdinal |-> oldOrdinal],
                           currentFileId)>>
             \o diffMember(kind, oldMember, newMember, newOrdinal, newParentNode,
                           currentFileId)

\* The removal loop started one position too far.
removedMembersOffByOne(kind, oldParentNode, oldMembers, newMembers, currentFileId) ==
    LET common == Min(Len(oldMembers), Len(newMembers))
        removed(i) ==
            LET oldMember == oldMembers[i + 1]
                oldOrdinal == ordinalOf(kind, oldMember, i)
            IN  addChangeAt("nodeRemoved", "wire", oldMemberLoc(oldParentNode, oldOrdinal),
                            [node |-> fieldToNodeRef(oldParentNode, oldOrdinal,
                                                     oldMember.name)],
                            currentFileId)
    IN  [k \in 1..(Len(oldMembers) - common - 1) |-> removed(Len(newMembers) + k)]

\* The second loop of diffMembers: the old members past the end of the new list.
removedMembers(kind, oldParentNode, oldMembers, newMembers, currentFileId) ==
    LET common == Min(Len(oldMembers), Len(newMembers))
        removed(i) ==
            LET oldMember == oldMembers[i + 1]
                oldOrdinal == ordinalOf(kind, oldMember, i)
            IN  addChangeAt("nodeRemoved", "wire", oldMemberLoc(oldParentNode, oldOrdinal),
                            [node |-> fieldToNodeRef(oldParentNode, oldOrdinal,
                                                     oldMember.name)],
                            currentFileId)
    IN  [k \in 1..(Len(oldMembers) - common) |-> removed(Len(newMembers) + k - 1)]

\* The third loop of diffMembers: the new members whose position the first loop left
\* in unseenNewMemberPositions.
addedMembers(kind, oldMembers, newParentNode, newMembers, currentFileId) ==
    LET common == Min(Len(oldMembers), Len(newMembers))
        unseenNewMemberPositions ==
            (0..(Len(newMembers) - 1))
                \ {seenPosition(oldMembers, newMembers, i) : i \in 0..(common - 1)}
        added(i) ==
            LET newMember == newMembers[i + 1]
                newOrdinal == ordinalOf(kind, newMember, i)
            IN  IF i \in unseenNewMemberPositions
                THEN <<addChangeAt("nodeAdded", "none",
                                   newMemberLoc(newParentNode, newOrdinal),
                                   [node |-> fieldToNodeRef(newParentNode, newOrdinal,
                                                            newMember.name)],
                                   currentFileId)>>
                ELSE <<>>
    IN  Flatten([k \in 1..Len(newMembers) |-> added(k - 1)])

diffMembers(kind, oldParentNode, oldMembers, newParentNode, newMembers, currentFileId) ==
    LET common == Min(Len(oldMembers), Len(newMembers))
    IN  Flatten([k \in 1..common |->
                    diffMemberAt(kind, oldParentNode, oldMembers, newParentNode, newMembers,
                                 k - 1, currentFileId)])
        \o removedMembers(kind, oldParentNode, oldMembers, newMembers, currentFileId)
        \o addedMembers(kind, oldMembers, newParentNode, newMembers, currentFileId)

diffStructs(oldStructNode, newStructNode, currentFileId) ==
    diffMembers("field", oldStructNode, oldStructNode.fields,
                newStructNode, newStructNode.fields, currentFileId)

diffEnums(oldEnumNode, newEnumNode, currentFileId) ==
    LET oldEnumerants == oldEnumNode.enumerants
        newEnumerants == newEnumNode.enumerants
        common == Min(Len(oldEnumerants), Len(newEnumerants))
        renamed(i) ==
            IF oldEnumerants[i + 1].name # newEnumerants[i + 1].name
            THEN <<addChangeAt("nodeRenamed", "code", newMemberLoc(newEnumNode, i),
                               [oldName |-> oldEnumerants[i + 1].name,
                                node |-> enumerantToNodeRef(newEnumNode, i,
                                                            newEnumerants[i + 1].name)],
                               currentFileId)>>
            ELSE <<>>
        removed(i) ==
            addChangeAt("nodeRemoved", "wire", oldMemberLoc(oldEnumNode, i),
                        [node |-> enumerantToNodeRef(oldEnumNode, i, oldEnumerants[i + 1].name)],
                        currentFileId)
        added(i) ==
            addChangeAt("nodeAdded", "none", newMemberLoc(newEnumNode, i),
                        [node |-> enumerantToNodeRef(newEnumNode, i, newEnumerants[i + 1].name)],
                        currentFileId)
    IN  Flatten([k \in 1..common |-> renamed(k - 1)])
        \o [k \in 1..(Len(oldEnumerants) - common) |-> removed(Len(newEnumerants) + k - 1)]
        \o [k \in 1..(Len(newEnumerants) - common) |-> added(Len(oldEnumerants) + k - 1)]

diffInterfaces(oldInterfaceNode, newInterfaceNode, currentFileId) ==
    diffMembers("method", oldInterfaceNode, oldInterfaceNode.methods,
                newInterfaceNode, newInterfaceNode.methods, currentFileId)

diffConsts(oldConstNode, newConstNode, currentFileId) ==
    LET newConstLoc == newNodeLoc(newConstNode)
    IN  diffType(oldConstNode.type, newConstNode.type, newConstLoc,
                 [shortName |-> shortName(newConstNode), kind |-> "constId",
                  id |-> newConstNode.id, ordinal |-> 0],
                 currentFileId)
        \o diffValues(oldConstNode.type, newConstNode.type,
                      oldConstNode.value, newConstNode.value,
                      newConstLoc, toNodeRef(newConstNode), "constValueChanged", "code",
                      currentFileId)

\* The keys of boolToEnum, in the order `for (... in boolToEnum)` visits them.
AnnotationTargets ==
    <<"file", "const", "enum", "enumerant", "struct", "field", "union", "group",
      "interface", "method", "param", "annotation">>

diffAnnotations(oldAnnotationNode, newAnnotationNode, currentFileId) ==
    LET newAnnotationLoc == newNodeLoc(newAnnotationNode)
        ref == [shortName |-> shortName(newAnnotationNode), kind |-> "annotation",
                id |-> newAnnotationNode.id, ordinal |-> 0]
        targetChange(t) ==
            LET oldIsTarget == t \in oldAnnotationNode.targets
                newIsTarget == t \in newAnnotationNode.targets
            IN  IF oldIsTarget /\ ~newIsTarget
                THEN <<addChangeAt("annotationTargetRemoved", "code", newAnnotationLoc,
                                   [node |-> ref, target |-> t], currentFileId)>>
                ELSE IF ~oldIsTarget /\ newIsTarget
                THEN <<addChangeAt("annotationTargetAdded", "none", newAnnotationLoc,
                                   [node |-> ref, target |-> t], currentFileId)>>
                ELSE <<>>
    IN  diffType(oldAnnotationNode.type, newAnnotationNode.type, newAnnotationLoc,
                 [shortName |-> shortName(newAnnotationNode), kind |-> "annotationId",
                  id |-> newAnnotationNode.id, ordinal |-> 0],
                 currentFileId)
        \o Flatten([k \in 1..Len(AnnotationTargets) |-> targetChange(AnnotationTargets[k])])

\* newNodes.find((newNestedNode) => newNestedNode.name === oldName): 0 when there is none.
findByName(newNodes, oldName) ==
    LET hits == {k \in 1..Len(newNodes) : newNodes[k].name = oldName}
    IN  IF hits = {} THEN 0 ELSE CHOOSE k \in hits : \A l \in hits : k <= l

\* The first loop of diffNestedNodes reporting removed nodes with the breakage of
\* removed members.
removedNestedNodesAsMembers(oldNodes, newNodes, currentFileId) ==
    LET removedOrChanged(oldNestedNode) ==
            LET oldNode == NodeById(oldSchema, oldNestedNode.id)
                k == findByName(newNodes, oldNestedNode.name)
            IN  IF HasNode(newSchema, oldNestedNode.id) THEN <<>>
                ELSE IF k # 0 /\ oldNode.which = NodeById(newSchema, newNodes[k].id).which
                THEN LET newNode == NodeById(newSchema, newNodes[k].id)
                     IN  <<addChangeAt("nodeIdChanged", "wire", newNodeLoc(newNode),
                                       [node |-> toNodeRef(newNode), oldId |-> oldNode.id],
                                       currentFileId)>>
                         \o diffNodes(oldNode, newNode, currentFileId)
                ELSE <<addChangeAt("nodeRemoved", "wire", oldNodeLoc(oldNode),
                                   [node |-> toNodeRef(oldNode)], currentFileId)>>
    IN  Flatten([k \in 1..Len(oldNodes) |-> removedOrChanged(oldNodes[k])])

\* The first loop of diffNestedNodes: the old entries whose id the new schema lacks.
removedNestedNodes(oldNodes, newNodes, currentFileId) ==
    LET removedOrChanged(oldNestedNode) ==
            LET oldNode == NodeById(oldSchema, oldNestedNode.id)
                k == findByName(newNodes, oldNestedNode.name)
            IN  IF HasNode(newSchema, oldNestedNode.id) THEN <<>>
                ELSE IF k # 0 /\ oldNode.which = NodeById(newSchema, newNodes[k].id).which
                THEN LET newNode == NodeById(newSchema, newNodes[k].id)
                     IN  <<addChangeAt("nodeIdChanged", "wire", newNodeLoc(newNode),
                                       [node |-> toNodeRef(newNode), oldId |-> oldNode.id],
                                       currentFileId)>>
                         \o diffNodes(oldNode, newNode, currentFileId)
                ELSE <<addChangeAt("nodeRemoved", "code", oldNodeLoc(oldNode),
                                   [node |-> toNodeRef(oldNode)], currentFileId)>>
    IN  Flatten([k \in 1..Len(oldNodes) |-> removedOrChanged(oldNodes[k])])

\* The second loop of diffNestedNodes without its else branch.
addedNestedNodesUnreported(newNodes, currentFileId) ==
    LET paired(newNestedNode) ==
            IF HasNode(oldSchema, newNestedNode.id)
            THEN diffNodes(NodeById(oldSchema, newNestedNode.id),
                           NodeById(newSchema, newNestedNode.id), currentFileId)
            ELSE <<>>
    IN  Flatten([k \in 1..Len(newNodes) |-> paired(newNodes[k])])

\* The second loop of diffNestedNodes: every new entry is diffed against the old node
\* of the same id, or reported as added.
addedNestedNodes(newNodes, currentFileId) ==
    LET pairedOrAdded(newNestedNode) ==
            LET newNode == NodeById(newSchema, newNestedNode.id)
            IN  IF HasNode(oldSchema, newNestedNode.id)
                THEN diffNodes(NodeById(oldSchema, newNestedNode.id), newNode, currentFileId)
                ELSE <<addChangeAt("nodeAdded", "none", newNodeLoc(newNode),
                                   [node |-> toNodeRef(newNode)], currentFileId)>>
    IN  Flatten([k \in 1..Len(newNodes) |-> pairedOrAdded(newNodes[k])])

diffNestedNodes(oldNodes, newNodes, currentFileId) ==
    removedNestedNodes(oldNodes, newNodes, currentFileId)
        \o addedNestedNodes(newNodes, currentFileId)

\* diffNodes returning after the two changes of a kind mismatch, the nested nodes left
\* aside.
diffNodesOfOneKind(oldNode, newNode, currentFileId) ==
    IF oldNode.which # newNode.which
    THEN <<addChangeAt("nodeRemoved", "code", Loc(oldNode), [node |-> toNodeRef(oldNode)],
                       currentFileId),
           addChangeAt("nodeAdded", "none", Loc(newNode), [node |-> toNodeRef(newNode)],
                       currentFileId)>>
    ELSE (IF shortName(oldNode) # shortName(newNode)
          THEN <<addChangeAt("nodeRenamed", "code", newNodeLoc(newNode),
                             [node |-> toNodeRef(newNode), oldName |-> shortName(oldNode)],
                             currentFileId)>>
          ELSE <<>>)
         \o (CASE oldNode.which = "file" -> <<>>
               [] oldNode.which = "struct" -> diffStructs(oldNode, newNode, currentFileId)
               [] oldNode.which = "enum" -> diffEnums(oldNode, newNode, currentFileId)
               [] oldNode.which = "interface" -> diffInterfaces(oldNode, newNode, currentFileId)
               [] oldNode.which = "const" -> diffConsts(oldNode, newNode, currentFileId)
               [] oldNode.which = "annotation" ->
                    diffAnnotations(oldNode, newNode, currentFileId))
         \o diffNestedNodes(oldNode.nestedNodes, newNode.nestedNodes, currentFileId)

diffNodes(oldNode, newNode, currentFileId) ==
    IF oldNode.which # newNode.which
    THEN <<addChangeAt("nodeRemoved", "code", Loc(oldNode), [node |-> toNodeRef(oldNode)],
                       currentFileId),
           addChangeAt("nodeAdded", "none", Loc(newNode), [node |-> toNodeRef(newNode)],
                       currentFileId)>>
         \o diffNestedNodes(oldNode.nestedNodes, newNode.nestedNodes, currentFileId)
    ELSE (IF shortName(oldNode) # shortName(newNode)
          THEN <<addChangeAt("nodeRenamed", "code", newNodeLoc(newNode),
                             [node |-> toNodeRef(newNode), oldName |-> shortName(oldNode)],
                             currentFileId)>>
          ELSE <<>>)
         \o (CASE oldNode.which = "file" -> <<>>
               [] oldNode.which = "struct" -> diffStructs(oldNode, newNode, currentFileId)
               [] oldNode.which = "enum" -> diffEnums(oldNode, newNode, currentFileId)
               [] oldNode.which = "interface" -> diffInterfaces(oldNode, newNode, currentFileId)
               [] oldNode.which = "const" -> diffConsts(oldNode, newNode, currentFileId)
               [] oldNode.which = "annotation" ->
                    diffAnnotations(oldNode, newNode, currentFileId))
         \o diffNestedNodes(oldNode.nestedNodes, newNode.nestedNodes, currentFileId)

diffFiles(oldFile, newFile) == diffNodes(oldFile, newFile, newFile.id)

\* req.nodes.filter((node) => node.which() === Node_Which.FILE)
getFiles(schema) == SelectSeq(schema.nodes, LAMBDA node : node.which = "file")

\* diffSchemas with the default options (schemaDiff passes none).
diffSchemas ==
    LET oldFiles == getFiles(oldSchema)
        newFiles == getFiles(newSchema)
        pairedOrAdded(newFile) ==
            IF ~HasNode(oldSchema, newFile.id)
            THEN <<addChange("nodeAdded", "none", newFile.startByte, newFile.startByte + 1,
                             [node |-> toNodeRef(newFile)], 0)>>
            ELSE diffFiles(NodeById(oldSchema, newFile.id), newFile)
        \* oldFiles.delete(oldFile.id) for every new file that has an old node
        stillThere(removedFile) ==
            \A k \in 1..Len(newFiles) : newFiles[k].id # removedFile.id
        removed(removedFile) ==
            addChange("nodeRemoved", "code", removedFile.startByte, removedFile.startByte + 1,
                      [node |-> toNodeRef(removedFile)], 0)
        removedFiles == SelectSeq(oldFiles, stillThere)
    IN  Flatten([k \in 1..Len(newFiles) |-> pairedOrAdded(newFiles[k])])
        \o [k \in 1..Len(removedFiles) |-> removed(removedFiles[k])]

-----------------------------------------------------------------------------
\* schemaDiff (mod.ts)

Thrown(events) == \E i \in 1..Len(events) : events[i].which = "throw"

\* The displayName addChange stores for a file id.
fileName(fileId) ==
    IF HasNode(newSchema, fileId) THEN NodeById(newSchema, fileId).displayName
    ELSE IF HasNode(oldSchema, fileId) THEN NodeById(oldSchema, fileId).displayName
    ELSE Undefined

\* this.changedFileNames.set(fileId, ...) for every change, in emission order.
RECURSIVE fileNamesOf(_, _)
fileNamesOf(changes, map) ==
    IF changes = <<>> THEN map
    ELSE LET fileId == Head(changes).fileId
             hits == {i \in 1..Len(map) : map[i].id = fileId}
         IN  fileNamesOf(Tail(changes),
                         IF hits = {}
                         THEN Append(map, [id |-> fileId, path |-> fileName(fileId)])
                         ELSE [i \in 1..Len(map) |->
                                  IF i \in hits THEN [id |-> fileId, path |-> fileName(fileId)]
                                  ELSE map[i]])

mapGet(map, id) ==
    LET hits == {i \in 1..Len(map) : map[i].id = id}
    IN  IF hits = {} THEN Undefined ELSE map[CHOOSE i \in hits : TRUE].path

\* The comparator of allChanges.sort, for a change `a` whose file name is defined
\* (undefined.localeCompare is a TypeError: see sortThrows).
compareChanges(a, b, names) ==
    LET aFileName == mapGet(names, a.fileId)
        bFileName == mapGet(names, b.fileId)
        fileNameComparison ==
            localeCompare(aFileName, IF bFileName = Undefined THEN UndefinedText ELSE bFileName)
    IN  IF fileNameComparison # 0 THEN fileNameComparison ELSE a.startByte - b.startByte

\* Array.prototype.sort as the engine runs it on a short array: a stable insertion sort
\* that passes each element after the first as `a`, and the first one only as `b`.
RECURSIVE insertSorted(_, _, _)
insertSorted(sorted, pivot, names) ==
    IF sorted = <<>> THEN <<pivot>>
    ELSE IF compareChanges(pivot, sorted[Len(sorted)], names) < 0
    THEN Append(insertSorted(SubSeq(sorted, 1, Len(sorted) - 1), pivot, names),
                sorted[Len(sorted)])
    ELSE Append(sorted, pivot)

RECURSIVE sortChanges(_, _)
sortChanges(changes, names) ==
    IF Len(changes) <= 1 THEN changes
    ELSE insertSorted(sortChanges(SubSeq(changes, 1, Len(changes) - 1), names),
                      changes[Len(changes)], names)

sortThrows(changes, names) ==
    \E i \in 2..Len(changes) : mapGet(names, changes[i].fileId) = Undefined

NoResult == [changes |-> <<>>, files |-> <<>>]

\* mod.ts 22-29: run the differ, collecting the changes.
Diffed(events) ==
    IF Thrown(events)
    THEN /\ pc' = "threw"
         /\ UNCHANGED <<allChanges, changedFileNames>>
    ELSE /\ allChanges' = events
         /\ changedFileNames' = fileNamesOf(events, <<>>)
         /\ pc' = "sort"

DiffSchemas ==
    /\ pc = "diff"
    /\ Diffed(diffSchemas)
    /\ UNCHANGED <<source, target, result, fileSystem>>

\* mod.ts 31-44: sort the changes by file name, then position.
SortChanges ==
    /\ pc = "sort"
    /\ IF sortThrows(allChanges, changedFileNames)
       THEN pc' = "threw" /\ UNCHANGED allChanges
       ELSE pc' = "package" /\ allChanges' = sortChanges(allChanges, changedFileNames)
    /\ UNCHANGED <<source, target, changedFileNames, result, fileSystem>>

\* mod.ts 46-65: copy the changes and the file names into the SchemaDiff message.
\* `file.path = name` with an undefined name is left to the message library: it
\* either raises, or stores no path (the entry keeps Undefined here).
Package ==
    /\ pc = "package"
    /\ \/ /\ result' = [changes |-> allChanges, files |-> changedFileNames]
          /\ pc' = "done"
       \/ /\ \E i \in 1..Len(changedFileNames) : changedFileNames[i].path = Undefined
          /\ pc' = "threw"
          /\ UNCHANGED result
    /\ UNCHANGED <<source, target, allChanges, changedFileNames, fileSystem>>

Next == DiffSchemas \/ SortChanges \/ Package

\* No file of the schemas is on disk.
NoFiles == <<>>

\* schemaDiff is called with one of the pairs, on a machine whose disk is one of fileSystems.
StartOn(pairs, fileSystems) ==
    /\ \E p \in pairs : source = p[1] /\ target = p[2]
    /\ fileSystem \in fileSystems
    /\ allChanges = <<>>
    /\ changedFileNames = <<>>
    /\ result = NoResult
    /\ pc = "diff"

Start(pairs) ==
    /\ \E p \in pairs : source = p[1] /\ target = p[2]
    /\ fileSystem = NoFiles
    /\ allChanges = <<>>
    /\ changedFileNames = <<>>
    /\ result = NoResult
    /\ pc = "diff"

-----------------------------------------------------------------------------
\* Input schemas

MaxMembers == 3
MaxNested == 2

NameA == <<11>>
NameB == <<12>>
NameC == <<13>>

\* Sequences of at most n elements of S, without repetition.
RECURSIVE Lists(_, _)
Lists(S, n) ==
    IF n = 0 THEN {<<>>}
    ELSE LET shorter == Lists(S, n - 1)
         IN  shorter \cup {Append(l, x) : l \in shorter, x \in S}

Distinct(l) == \A i, j \in 1..Len(l) : i # j => l[i] # l[j]
DistinctLists(S, n) == {l \in Lists(S, n) : Distinct(l)}

FileNode(id, path, nested) ==
    [NoNode EXCEPT !.id = id, !.which = "file", !.displayName = path,
                   !.endByte = 99, !.nestedNodes = nested]

\* A node declared in the file at `path`: its display name is "<path>:<name>".
DeclNode(id, which, path, name, scopeId, startByte) ==
    [NoNode EXCEPT !.id = id, !.which = which,
                   !.displayName = path \o <<0>> \o name,
                   !.displayNamePrefixLength = Len(path) + 1,
                   !.scopeId = scopeId, !.startByte = startByte, !.endByte = startByte + 5]

SourceInfo(id, startByte, endByte, members) ==
    [id |-> id, startByte |-> startByte, endByte |-> endByte, members |-> members]

Schema(nodes, sourceInfo) == [nodes |-> nodes, sourceInfo |-> sourceInfo]

\* --- Files: one or two files in either order, each at one of two paths; structs
\* X, Z in file 1 and Y in file 2, each under one of two names.
FilePaths1 == {<<3>>, <<7>>}
FilePaths2 == {<<2>>, <<6>>}
FileOrders == {<<1>>, <<2>>, <<1, 2>>, <<2, 1>>}

FilesSchema(order, p1, p2, xName, zName, yName) ==
    LET file(id) ==
            IF id = 1 THEN FileNode(1, p1, <<Nested(xName, 10), Nested(zName, 11)>>)
            ELSE FileNode(2, p2, <<Nested(yName, 20)>>)
        decls(id) ==
            IF id = 1
            THEN <<DeclNode(10, "struct", p1, xName, 1, 21),
                   DeclNode(11, "struct", p1, zName, 1, 10)>>
            ELSE <<DeclNode(20, "struct", p2, yName, 2, 15)>>
    IN  Schema([k \in 1..Len(order) |-> file(order[k])]
                   \o Flatten([k \in 1..Len(order) |-> decls(order[k])]),
               IF 1 \in {order[k] : k \in 1..Len(order)}
               THEN <<SourceInfo(10, 20, 25, <<>>)>> ELSE <<>>)

FilesOld ==
    {FilesSchema(o, p1, p2, NameA, NameB, NameA) :
        o \in FileOrders, p1 \in FilePaths1, p2 \in FilePaths2}

FilesNew ==
    {FilesSchema(o, p1, p2, x, z, y) :
        o \in FileOrders, p1 \in FilePaths1, p2 \in FilePaths2,
        x \in {NameA, NameC}, z \in {NameB, NameC}, y \in {NameA, NameC}}

FilesPairs == FilesOld \X FilesNew

\* --- Nested nodes: one file whose nested list holds up to MaxNested structs or
\* enums with ids 10, 11 and names A, B; a struct may hold one nested struct.
NestedIds == {10, 11}
InnerIds == {0, 20, 21}

NestedDecls ==
    [id : NestedIds, name : {NameA, NameB}, which : {"struct", "enum"}, inner : InnerIds]

WellFormedDecls(l) ==
    /\ \A i \in 1..Len(l) : l[i].which = "enum" => l[i].inner = 0
    /\ \A i, j \in 1..Len(l) :
          i # j => /\ l[i].id # l[j].id
                   /\ l[i].name # l[j].name
                   /\ (l[i].inner # 0 => l[i].inner # l[j].inner)

NodesSchema(decls) ==
    LET path == <<3>>
        top(d) ==
            [DeclNode(d.id, d.which, path, d.name, 1, d.id) EXCEPT
                !.nestedNodes = IF d.inner = 0 THEN <<>> ELSE <<Nested(NameC, d.inner)>>]
        inner(d) ==
            IF d.inner = 0 THEN <<>>
            ELSE <<[DeclNode(d.inner, "struct", path, NameC, d.id, d.inner) EXCEPT
                       !.displayName = path \o <<0>> \o d.name \o <<0>> \o NameC,
                       !.displayNamePrefixLength = Len(path) + Len(d.name) + 2]>>
    IN  Schema(<<FileNode(1, path, [k \in 1..Len(decls) |-> Nested(decls[k].name, decls[k].id)])>>
                   \o [k \in 1..Len(decls) |-> top(decls[k])]
                   \o Flatten([k \in 1..Len(decls) |-> inner(decls[k])]),
               <<>>)

NodesSchemas == {NodesSchema(l) : l \in {l \in Lists(NestedDecls, MaxNested) : WellFormedDecls(l)}}

NodesPairs == NodesSchemas \X NodesSchemas

\* --- Members: one file holding one struct, enum or interface with id 10 whose
\* members are named by a list without repetition; fields carry their position as
\* explicit ordinal, and each method has its own auto-generated parameter and result
\* structs (scopeId 0).
NameD == <<14>>
MemberNames == {NameA, NameB, NameC, NameD}
MembersPath == <<3>>

Value(which, payload) == [which |-> which] @@ (which :> payload)

Enumerant(name) == [name |-> name]

ParamStructId(name) == 100 + name[1]
ResultStructId(name) == 200 + name[1]

MemberLocs(names) == [k \in 1..Len(names) |-> [startByte |-> 30 + names[k][1], endByte |-> 40 + names[k][1]]]

FieldsOf(names) ==
    [k \in 1..Len(names) |-> SlotField(names[k], k - 1, Prim("uint16"), Value("uint16", 0))]

\* The struct the compiler generates for a method's parameters or results.
GeneratedStruct(id, name, fieldNames) ==
    [DeclNode(id, "struct", MembersPath, name, 0, 0) EXCEPT !.fields = FieldsOf(fieldNames)]

MembersSchema(which, names, paramNames) ==
    LET declared ==
            [DeclNode(10, which, MembersPath, NameA, 1, 10) EXCEPT
                !.fields = IF which = "struct" THEN FieldsOf(names) ELSE <<>>,
                !.enumerants = IF which = "enum"
                               THEN [k \in 1..Len(names) |-> Enumerant(names[k])] ELSE <<>>,
                !.methods = IF which = "interface"
                            THEN [k \in 1..Len(names) |->
                                     Method(names[k], ParamStructId(names[k]),
                                            ResultStructId(names[k]), 0, 0)]
                            ELSE <<>>]
        generated ==
            IF which = "interface"
            THEN Flatten([k \in 1..Len(names) |->
                             <<GeneratedStruct(ParamStructId(names[k]), names[k] \o <<1>>,
                                               paramNames),
                               GeneratedStruct(ResultStructId(names[k]), names[k] \o <<2>>,
                                               <<>>)>>])
            ELSE <<>>
    IN  Schema(<<FileNode(1, MembersPath, <<Nested(NameA, 10)>>), declared>> \o generated,
               <<SourceInfo(10, 10, 15, MemberLocs(names))>>)

MemberLists == DistinctLists(MemberNames, MaxMembers)
ParamLists == DistinctLists({NameA, NameB}, MaxMembers - 1)

MembersSchemas(which) == {MembersSchema(which, names, <<>>) : names \in MemberLists}

\* An interface with the one method A, whose parameter struct varies.
ParamsSchemas == {MembersSchema("interface", <<NameA>>, params) : params \in ParamLists}

MembersPairs ==
    (MembersSchemas("struct") \X MembersSchemas("struct"))
        \cup (MembersSchemas("enum") \X MembersSchemas("enum"))
        \cup (MembersSchemas("interface") \X MembersSchemas("interface"))
        \cup (ParamsSchemas \X ParamsSchemas)

\* --- Types: one file holding the enums E1 (13) and E2 (14), the struct T (15) whose
\* first field is a UInt16, and one node with id 10 that varies: a struct with one
\* field, a const, or an annotation.
TypesPath == <<3>>

TypedValues ==
    {[type |-> Prim("uint8"), value |-> Value("uint8", 1)],
     [type |-> Prim("uint16"), value |-> Value("uint16", 1)],
     [type |-> Prim("uint16"), value |-> Value("uint16", 2)],
     [type |-> Prim("uint32"), value |-> Value("uint32", 1)],
     [type |-> EnumType(13), value |-> Value("enum", 1)],
     [type |-> EnumType(13), value |-> Value("enum", 2)],
     [type |-> EnumType(14), value |-> Value("enum", 1)],
     [type |-> Prim("float64"), value |-> Value("float64", 1)],
     [type |-> Prim("float64"), value |-> Value("float64", NaN)],
     [type |-> Prim("bool"), value |-> Value("bool", TRUE)],
     [type |-> Prim("text"), value |-> Value("text", <<1>>)],
     [type |-> Prim("text"), value |-> Value("text", <<2>>)],
     [type |-> Prim("data"), value |-> Value("data", <<1>>)]}

AnnotationTypes ==
    {VoidType, Prim("uint16"), Prim("text"), Prim("data"), EnumType(13),
     ListType(Prim("uint8")), ListType(Prim("uint16")), ListType(StructType(15, 0)),
     StructType(15, 0), InterfaceType(15, 0), Prim("anyPointer")}

TargetSets == {{}, {"struct"}, {"struct", "field"}}

TypesSchema(varying, extra) ==
    LET names == <<NameA, NameB, NameC>>
        enum(id, name) ==
            [DeclNode(id, "enum", TypesPath, name, 1, id) EXCEPT
                !.enumerants = [k \in 1..Len(names) |-> Enumerant(names[k])]]
        struct ==
            [DeclNode(15, "struct", TypesPath, <<15>>, 1, 15) EXCEPT
                !.fields = <<SlotField(NameA, 0, Prim("uint16"), Value("uint16", 0))>>]
    IN  Schema(<<FileNode(1, TypesPath,
                          <<Nested(NameA, 10), Nested(<<13>>, 13), Nested(<<14>>, 14),
                            Nested(<<15>>, 15)>>),
                 varying, enum(13, <<13>>), enum(14, <<14>>), struct>> \o extra,
               <<>>)

\* The struct of a group field: a struct node scoped to the struct that declares it.
GroupNode(id) == DeclNode(id, "struct", TypesPath, NameA \o <<0>> \o NameB, 10, 12)

FieldSchemas ==
    {TypesSchema([DeclNode(10, "struct", TypesPath, NameA, 1, 10) EXCEPT
                     !.fields = <<SlotField(NameB, 0, tv.type, tv.value)>>], <<>>) :
        tv \in TypedValues}
    \cup {TypesSchema([DeclNode(10, "struct", TypesPath, NameA, 1, 10) EXCEPT
                          !.fields = <<GroupField(NameB, g)>>], <<GroupNode(g)>>) :
             g \in {16, 17}}

ConstSchemas ==
    {TypesSchema([DeclNode(10, "const", TypesPath, NameA, 1, 10) EXCEPT
                     !.type = tv.type, !.value = tv.value], <<>>) :
        tv \in TypedValues}

AnnotationSchemas ==
    {TypesSchema([DeclNode(10, "annotation", TypesPath, NameA, 1, 10) EXCEPT
                     !.type = t, !.targets = ts], <<>>) :
        t \in AnnotationTypes, ts \in TargetSets}

TypesPairs ==
    (FieldSchemas \X FieldSchemas) \cup (ConstSchemas \X ConstSchemas)
        \cup (AnnotationSchemas \X AnnotationSchemas)

\* --- Pointers: the file of the Types family with a const or a one-field struct (id
\* 10) whose value is a struct, a list or an any-pointer.  The segment that holds the
\* value starts with the data section of the Value struct (its discriminant, then
\* zeroes), after an optional earlier word; the pointer word follows, then what it
\* points to.

\* A number below 2^31 as the four bytes of a little-endian 32-bit word.
U32(n) == <<n % 256, (n \div 256) % 256, (n \div 65536) % 256, (n \div 16777216) % 256>>

NullPointer == U32(0) \o U32(0)
DataWord(low, high) == U32(low) \o U32(high)
StructPointer(offsetWords, dataWords, pointers) == U32(offsetWords * 4) \o U32(dataWords + 65536 * pointers)
ListPointer(offsetWords, elementSize, length) == U32(offsetWords * 4 + 1) \o U32(elementSize + 8 * length)
FarPointer(wordOffset, segmentId) == U32(wordOffset * 8 + 2) \o U32(segmentId)
InterfacePointer(capabilityIndex) == U32(3) \o U32(capabilityIndex)

\* Value.which as the discriminant stored in the Value struct.
ValueWhichCode(which) ==
    CASE which = "list" -> 14 [] which = "struct" -> 16 [] which = "anyPointer" -> 18

\* What a pointer-typed value points to: the pointer word and the words after it.
Encodings ==
    [struct |->
        {<<NullPointer>>,
         <<StructPointer(0, 1, 0), DataWord(0, 0)>>,
         <<StructPointer(0, 2, 0), DataWord(0, 0), DataWord(0, 0)>>,
         <<StructPointer(0, 1, 0), DataWord(1, 0)>>,
         <<StructPointer(0, 1, 0), DataWord(2, 0)>>,
         <<StructPointer(0, 2, 0), DataWord(1, 0), DataWord(0, 1)>>,
         <<StructPointer(0, 2, 0), DataWord(1, 0), DataWord(0, 2)>>,
         <<StructPointer(0, 0, 1), NullPointer>>,
         <<StructPointer(0, 0, 1), ListPointer(0, 2, 0)>>,
         <<StructPointer(1, 1, 0), DataWord(0, 0), DataWord(1, 0)>>},
     list |->
        {<<NullPointer>>,
         <<ListPointer(0, 2, 0)>>,
         <<ListPointer(0, 2, 1), DataWord(7, 0)>>,
         <<ListPointer(0, 2, 1), DataWord(8, 0)>>,
         <<ListPointer(0, 5, 2), DataWord(1, 0), DataWord(2, 0)>>,
         <<ListPointer(0, 5, 2), DataWord(1, 0), DataWord(3, 0)>>,
         <<ListPointer(0, 6, 1), NullPointer>>},
     anyPointer |->
        {<<NullPointer>>,
         <<StructPointer(0, 1, 0), DataWord(0, 0)>>,
         <<ListPointer(0, 2, 0)>>,
         <<InterfacePointer(0)>>,
         <<FarPointer(0, 1)>>}]

PointerTypeOf(which, words) ==
    CASE which = "struct" -> StructType(15, 0)
      [] which = "anyPointer" -> Prim("anyPointer")
      [] which = "list" ->
            LET size == words[1][5] % 8
            IN  ListType(IF size = 5 THEN Prim("uint64")
                         ELSE IF size = 6 THEN Prim("text") ELSE Prim("uint8"))

EarlierWords == {<<>>, <<DataWord(5, 0)>>}

\* The Value: its pointer is the word after the two data words of the Value struct.
PointerValue(which, earlier, words) ==
    LET segment == Flatten(earlier) \o DataWord(ValueWhichCode(which), 0) \o DataWord(0, 0)
                       \o Flatten(words)
    IN  Value(which, Pointer(<<segment>>, 0, Len(earlier) * 8 + 16))

PointerTypedValues ==
    {[type |-> PointerTypeOf(which, words), value |-> PointerValue(which, earlier, words)] :
        which \in {"struct"}, earlier \in EarlierWords, words \in Encodings.struct}
    \cup {[type |-> PointerTypeOf(which, words), value |-> PointerValue(which, earlier, words)] :
             which \in {"list"}, earlier \in EarlierWords, words \in Encodings.list}
    \cup {[type |-> PointerTypeOf(which, words), value |-> PointerValue(which, earlier, words)] :
             which \in {"anyPointer"}, earlier \in EarlierWords, words \in Encodings.anyPointer}

PointerConstSchemas ==
    {TypesSchema([DeclNode(10, "const", TypesPath, NameA, 1, 10) EXCEPT
                     !.type = tv.type, !.value = tv.value], <<>>) :
        tv \in PointerTypedValues}

PointerFieldSchemas ==
    {TypesSchema([DeclNode(10, "struct", TypesPath, NameA, 1, 10) EXCEPT
                     !.fields = <<SlotField(NameB, 0, tv.type, tv.value)>>], <<>>) :
        tv \in {tv \in PointerTypedValues : tv.value.which = "anyPointer"}}

PointersPairs ==
    (PointerConstSchemas \X PointerConstSchemas) \cup (PointerFieldSchemas \X PointerFieldSchemas)

\* --- Generics: the file of the Types family with a field, a const or an annotation
\* (id 10) of a struct or interface type with 0 to MaxScopes brand scopes, or an
\* interface (id 10) whose one method has 0 to MaxScopes parameter brand scopes.
MaxScopes == 2

GenericTypes ==
    {StructType(15, n) : n \in 0..MaxScopes} \cup {InterfaceType(15, n) : n \in 0..MaxScopes}

\* The default of a struct is a null pointer; an interface value holds nothing.
GenericValue(type) ==
    IF type.which = "struct" THEN PointerValue("struct", <<>>, <<NullPointer>>)
    ELSE [which |-> "interface"]

GenericSchemas ==
    [field |->
        {TypesSchema([DeclNode(10, "struct", TypesPath, NameA, 1, 10) EXCEPT
                         !.fields = <<SlotField(NameB, 0, t, GenericValue(t))>>], <<>>) :
            t \in GenericTypes},
     const |->
        {TypesSchema([DeclNode(10, "const", TypesPath, NameA, 1, 10) EXCEPT
                         !.type = t, !.value = GenericValue(t)], <<>>) :
            t \in GenericTypes},
     annotation |->
        {TypesSchema([DeclNode(10, "annotation", TypesPath, NameA, 1, 10) EXCEPT
                         !.type = t, !.targets = {"struct"}], <<>>) :
            t \in GenericTypes},
     method |->
        {TypesSchema([DeclNode(10, "interface", TypesPath, NameA, 1, 10) EXCEPT
                         !.methods = <<Method(NameB, 15, 15, n, 0)>>], <<>>) :
            n \in 0..MaxScopes}]

GenericsPairs ==
    UNION {GenericSchemas[k] \X GenericSchemas[k] : k \in DOMAIN GenericSchemas}

\* --- Kinds: the file of the Types family with an annotation (id 10) whose type ranges
\* over the kinds of types and over lists of them, next to the structs of an imported
\* file: 16 starts with a List(UInt16) or with a Bool, 17 with a group, 18 has no field
\* and 19 starts with a Data.
ImportedStruct(id, fields) ==
    [DeclNode(id, "struct", <<2>>, <<id>>, 2, id) EXCEPT !.fields = fields]

FirstFieldsOf16 == {ListType(Prim("uint16")), Prim("bool")}

ImportedStructs(firstOf16) ==
    <<ImportedStruct(16, <<SlotField(NameA, 0, firstOf16, VoidValue)>>),
      ImportedStruct(17, <<GroupField(NameA, 18)>>),
      ImportedStruct(18, <<>>),
      ImportedStruct(19, <<SlotField(NameA, 0, Prim("data"), VoidValue)>>)>>

ElementTypes ==
    {Prim("bool"), Prim("uint8"), Prim("uint16"), Prim("text"), Prim("data"), EnumType(13),
     ListType(Prim("uint8")), ListType(Prim("uint16")),
     StructType(15, 0), StructType(16, 0), StructType(17, 0), StructType(18, 0),
     StructType(19, 0)}

KindsTypes ==
    {Prim("bool"), Prim("uint8"), Prim("uint16"), Prim("text"), Prim("data"),
     Prim("anyPointer"), EnumType(13), EnumType(14), StructType(15, 0), StructType(16, 0),
     InterfaceType(15, 0)}
    \cup {ListType(t) : t \in ElementTypes}

KindsSchemas ==
    {TypesSchema([DeclNode(10, "annotation", TypesPath, NameA, 1, 10) EXCEPT
                     !.type = t, !.targets = {"struct"}], ImportedStructs(firstOf16)) :
        t \in KindsTypes, firstOf16 \in FirstFieldsOf16}

KindsPairs == KindsSchemas \X KindsSchemas

-----------------------------------------------------------------------------
\* Specifications

InitFiles == Start(FilesPairs)
InitNodes == Start(NodesPairs)
InitMembers == Start(MembersPairs)
InitTypes == Start(TypesPairs)
InitPointers == Start(PointersPairs)
InitGenerics == Start(GenericsPairs)
InitKinds == Start(KindsPairs)
Init == Start(FilesPairs \cup NodesPairs \cup MembersPairs \cup TypesPairs)

SpecFiles == InitFiles /\ [][Next]_vars
SpecNodes == InitNodes /\ [][Next]_vars
SpecMembers == InitMembers /\ [][Next]_vars
SpecTypes == InitTypes /\ [][Next]_vars
SpecPointers == InitPointers /\ [][Next]_vars
SpecGenerics == InitGenerics /\ [][Next]_vars
SpecKinds == InitKinds /\ [][Next]_vars
Spec == Init /\ [][Next]_vars

-----------------------------------------------------------------------------
\* Vocabulary of the properties

Done == pc = "done"

NodeKinds == {"file", "struct", "enum", "interface", "const", "annotation"}
MemberKinds == {"field", "enumerant", "method", "methodInput", "methodOutput"}
Lifecycle == {"nodeAdded", "nodeRemoved", "nodeIdChanged", "nodeRenamed"}

NodesOf(schema) == {schema.nodes[i] : i \in 1..Len(schema.nodes)}
EntriesOf(node) == {node.nestedNodes[i] : i \in 1..Len(node.nestedNodes)}

\* The positions of the output changes that satisfy P.
Where(P(_)) == {i \in 1..Len(result.changes) : P(result.changes[i])}

\* The node that lists `id` among its nested nodes, and the chain of such nodes.
HasParent(schema, id) == \E p \in NodesOf(schema) : \E e \in EntriesOf(p) : e.id = id
ParentOf(schema, id) == CHOOSE p \in NodesOf(schema) : \E e \in EntriesOf(p) : e.id = id

RECURSIVE Enclosing(_, _)
Enclosing(schema, id) ==
    IF HasParent(schema, id)
    THEN {ParentOf(schema, id).id} \cup Enclosing(schema, ParentOf(schema, id).id)
    ELSE {}

\* The declarations nested directly in a file that both schemas hold, present under
\* the same id and kind in both: diffNestedNodes hands each to diffNodes.
PairedDecls ==
    {n \in NodesOf(target) :
        /\ n.which # "file"
        /\ HasNode(source, n.id)
        /\ NodeById(source, n.id).which = n.which
        /\ HasParent(target, n.id)
        /\ ParentOf(target, n.id).which = "file"
        /\ HasNode(source, ParentOf(target, n.id).id)}

\* The slot fields diffMembers pairs by position, and the consts: each as
\* [old, new] types and values with the reference its changes carry.
PairedSlots ==
    UNION {{[oldType |-> NodeById(source, n.id).fields[i].type,
             newType |-> n.fields[i].type,
             oldValue |-> NodeById(source, n.id).fields[i].defaultValue,
             newValue |-> n.fields[i].defaultValue,
             id |-> n.id, kind |-> "field", name |-> n.fields[i].name,
             valueChange |-> "fieldDefaultValueChanged", valueBreakage |-> "wire"] :
               i \in {i \in 1..Min(Len(NodeById(source, n.id).fields), Len(n.fields)) :
                         /\ NodeById(source, n.id).fields[i].which = "slot"
                         /\ n.fields[i].which = "slot"}} :
           n \in {n \in PairedDecls : n.which = "struct"}}

PairedConsts ==
    {[oldType |-> NodeById(source, n.id).type, newType |-> n.type,
      oldValue |-> NodeById(source, n.id).value, newValue |-> n.value,
      id |-> n.id, kind |-> "const", name |-> shortName(n),
      valueChange |-> "constValueChanged", valueBreakage |-> "code"] :
        n \in {n \in PairedDecls : n.which = "const"}}

PairedAnnotations ==
    {[oldType |-> NodeById(source, n.id).type, newType |-> n.type,
      id |-> n.id, kind |-> "annotation", name |-> shortName(n)] :
        n \in {n \in PairedDecls : n.which = "annotation"}}

\* The node_type_changed changes about a paired field, const or annotation.
TypeChangesOf(p) ==
    Where(LAMBDA c : /\ c.which = "nodeTypeChanged"
                     /\ c.node.id = p.id
                     /\ c.node.shortName = p.name
                     /\ c.node.kind = (CASE p.kind = "field" -> "field"
                                         [] p.kind = "const" -> "constId"
                                         [] p.kind = "annotation" -> "annotationId"))

\* The value-changed and unsupported changes about a paired field or const.
ValueChangesOf(p) ==
    Where(LAMBDA c : /\ c.which = p.valueChange
                     /\ c.node.id = p.id
                     /\ c.node.shortName = p.name
                     /\ c.node.kind = p.kind)

UnsupportedOf(p) ==
    Where(LAMBDA c : /\ c.which = "unsupported"
                     /\ c.node.id = p.id
                     /\ c.node.shortName = p.name
                     /\ c.node.kind = p.kind)

-----------------------------------------------------------------------------
\* C1

\* C1: reflexivity.  Diffing a schema against itself completes (nothing is thrown)
\* and the differ emits no change, so the output list is empty.
C1_Reflexivity ==
    source = target =>
        /\ pc # "threw"
        /\ allChanges = <<>>
        /\ (Done => result.changes = <<>>)

-----------------------------------------------------------------------------
\* C2

\* The path of the file a change belongs to: for the change about a whole file, that
\* file; otherwise the file the change was emitted in.
ChangePath(c) == IF c.node.kind = "file" THEN fileName(c.node.id) ELSE fileName(c.fileId)

\* C2: the output list is non-decreasing under (path of the change's file, startByte):
\* of two consecutive changes, the first one's path sorts before the second one's, or
\* the paths are equal and the first one's startByte is not the greater.
C2_SortedByPathThenStart ==
    Done =>
        \A i \in 1..(Len(result.changes) - 1) :
            LET c1 == result.changes[i]
                c2 == result.changes[i + 1]
                byPath == localeCompare(ChangePath(c1), ChangePath(c2))
            IN  byPath < 0 \/ (byPath = 0 /\ c1.startByte <= c2.startByte)

-----------------------------------------------------------------------------
\* C3

IsFileId(id) ==
    \E schema \in {source, target} : HasNode(schema, id) /\ NodeById(schema, id).which = "file"

\* C3: every output change, the ones about whole files included, carries the id of a
\* file node of one of the two schemas, and the files table has an entry for that id
\* holding the file's path in the new schema, or in the old one for a removed file.
C3_FileIdsAreFiles ==
    Done =>
        \A i \in 1..Len(result.changes) :
            LET c == result.changes[i]
            IN  /\ IsFileId(c.fileId)
                /\ \E k \in 1..Len(result.files) :
                      /\ result.files[k].id = c.fileId
                      /\ result.files[k].path = fileName(c.fileId)

-----------------------------------------------------------------------------
\* C4

\* The node_id_changed changes name none of these ids.
NoIdChangeOn(ids) == Where(LAMBDA c : c.which = "nodeIdChanged" /\ c.node.id \in ids) = {}

\* The schema without the node `id` and without the entries that list it.
RemoveNode(schema, id) ==
    [schema EXCEPT !.nodes =
        [k \in 1..Len(SelectSeq(schema.nodes, LAMBDA n : n.id # id)) |->
            LET n == SelectSeq(schema.nodes, LAMBDA m : m.id # id)[k]
            IN  [n EXCEPT !.nestedNodes = SelectSeq(n.nestedNodes, LAMBDA e : e.id # id)]]]

AddedChangesOf(n) == Where(LAMBDA c : c.which = "nodeAdded" /\ c.node = toNodeRef(n))
RemovedChangesOf(n) == Where(LAMBDA c : c.which = "nodeRemoved" /\ c.node = toNodeRef(n))

\* The new nested nodes whose id the old schema lacks, in a file both schemas hold.
NewOnly ==
    {n \in NodesOf(target) :
        /\ n.which # "file"
        /\ ~HasNode(source, n.id)
        /\ HasParent(target, n.id)
        /\ \E f \in Enclosing(target, n.id) :
              /\ NodeById(target, f).which = "file"
              /\ HasNode(source, f)}

\* The old nested nodes whose id the new schema lacks and whose name and kind no entry
\* of the new parent has, in a file both schemas hold.
OldOnly ==
    {m \in NodesOf(source) :
        /\ m.which # "file"
        /\ ~HasNode(target, m.id)
        /\ HasParent(source, m.id)
        /\ \E f \in Enclosing(source, m.id) :
              /\ NodeById(source, f).which = "file"
              /\ HasNode(target, f)
        /\ LET parent == ParentOf(source, m.id)
           IN  HasNode(target, parent.id) =>
                  \A e \in EntriesOf(NodeById(target, parent.id)) :
                      ~(e.name = shortName(m) /\ NodeById(target, e.id).which = m.which)}

OneAddedNone(n) ==
    /\ Cardinality(AddedChangesOf(n)) = 1
    /\ \A i \in AddedChangesOf(n) : result.changes[i].breakage = "none"

OneRemovedCode(m) ==
    /\ Cardinality(RemovedChangesOf(m)) = 1
    /\ \A i \in RemovedChangesOf(m) : result.changes[i].breakage = "code"

OnlyDifferenceIsOneChange ==
    /\ \A n \in NewOnly :
          (n.nestedNodes = <<>> /\ RemoveNode(target, n.id) = source)
              => Len(result.changes) = 1
    /\ \A m \in OldOnly :
          (m.nestedNodes = <<>> /\ RemoveNode(source, m.id) = target)
              => Len(result.changes) = 1

OnlyDifferenceIsOneLifecycleChange ==
    /\ \A n \in NewOnly :
          (n.nestedNodes = <<>> /\ RemoveNode(target, n.id) = source)
              => Cardinality(Where(LAMBDA c : c.which \in Lifecycle)) = 1
    /\ \A m \in OldOnly :
          (m.nestedNodes = <<>> /\ RemoveNode(source, m.id) = target)
              => Cardinality(Where(LAMBDA c : c.which \in Lifecycle)) = 1

\* Every enclosing node is held by both schemas under the same id, and none is the
\* subject of a node_id_changed: the differ pairs them by id, once.
PairedById(ids) ==
    /\ \A a \in ids : HasNode(source, a) /\ HasNode(target, a)
    /\ NoIdChangeOn(ids)

-----------------------------------------------------------------------------
\* C5

\* The changes at `positions` are what the classification asks for.
TypeChangeAsClassified(classification, positions) ==
    /\ classification \in {"Compatible", "Incompatible"} <=> Cardinality(positions) = 1
    /\ classification \in {"Same", "Equivalent"} => positions = {}
    /\ \A i \in positions :
          result.changes[i].breakage = (IF classification = "Compatible" THEN "code" ELSE "wire")

WireTypeChanges ==
    {<<"uint16", "enum">>, <<"uint8", "uint16">>, <<"uint16", "uint8">>,
     <<"uint16", "uint32">>}

\* C5: a paired slot field, const or annotation gets exactly one node_type_changed
\* if and only if typeCompatibility of its old and new type is Compatible or
\* Incompatible, with breakage code for Compatible and wire for Incompatible, and none
\* for Same / Equivalent; enum -> UInt16 is code, while UInt16 -> enum, UInt8 -> UInt16,
\* UInt16 -> UInt8 and UInt16 -> UInt32 are wire.
C5_TypeChangeFollowsCompatibility ==
    Done =>
        /\ \A p \in PairedSlots \cup PairedConsts \cup PairedAnnotations :
              TypeChangeAsClassified(typeCompatibility(p.oldType, p.newType), TypeChangesOf(p))
        /\ \A p \in PairedSlots :
              /\ (p.oldType.which = "enum" /\ p.newType.which = "uint16")
                    => \E i \in TypeChangesOf(p) : result.changes[i].breakage = "code"
              /\ <<p.oldType.which, p.newType.which>> \in WireTypeChanges
                    => \E i \in TypeChangesOf(p) : result.changes[i].breakage = "wire"

\* A field went from an enum to UInt16 and its type change is reported as code.
C5_Witness ==
    /\ Done
    /\ \E p \in PairedSlots :
          /\ p.oldType.which = "enum"
          /\ p.newType.which = "uint16"
          /\ \E i \in TypeChangesOf(p) : result.changes[i].breakage = "code"

-----------------------------------------------------------------------------
\* C6

\* C6 as stated: a paired slot field or const whose types are Compatible gets exactly
\* one node_type_changed (code) and the values are not compared: no value-changed and
\* no unsupported change is emitted for it, whatever the values.
C6_CompatibleSkipsValues ==
    Done =>
        \A p \in PairedSlots \cup PairedConsts :
            typeCompatibility(p.oldType, p.newType) = "Compatible" =>
                /\ Cardinality(TypeChangesOf(p)) = 1
                /\ \A i \in TypeChangesOf(p) : result.changes[i].breakage = "code"
                /\ ValueChangesOf(p) = {}
                /\ UnsupportedOf(p) = {}

\* C6, amended: a paired slot field or const whose types are Compatible gets exactly
\* one node_type_changed (code), and its values are compared as they are for equal
\* types: one value-changed change when the comparator finds them different (an enum
\* default against a UInt16 default of another number), one unsupported change (wire)
\* when it cannot compare the two kinds of value (Text against Data), nothing when it
\* finds them equal.  The comparator is skipped only for Incompatible types.
C6_CompatibleComparesValues ==
    Done =>
        \A p \in PairedSlots \cup PairedConsts :
            LET classification == typeCompatibility(p.oldType, p.newType)
                equal == valuesAreEqual(p.oldValue, p.newValue)
            IN  /\ classification = "Compatible" =>
                      /\ Cardinality(TypeChangesOf(p)) = 1
                      /\ \A i \in TypeChangesOf(p) : result.changes[i].breakage = "code"
                      /\ Cardinality(ValueChangesOf(p)) = (IF equal = "false" THEN 1 ELSE 0)
                      /\ \A i \in ValueChangesOf(p) :
                            result.changes[i].breakage = p.valueBreakage
                      /\ Cardinality(UnsupportedOf(p)) = (IF equal = "throw" THEN 1 ELSE 0)
                      /\ \A i \in UnsupportedOf(p) : result.changes[i].breakage = "wire"
                /\ classification = "Incompatible" =>
                      ValueChangesOf(p) = {} /\ UnsupportedOf(p) = {}

\* An enum field with default 1 became a UInt16 field with default 2: the type change
\* and the default value change are both reported.
C6_Witness ==
    /\ Done
    /\ \E p \in PairedSlots :
          /\ typeCompatibility(p.oldType, p.newType) = "Compatible"
          /\ p.oldValue.which = "enum"
          /\ p.newValue.which = "uint16"
          /\ p.oldValue.enum # p.newValue.uint16
          /\ Cardinality(TypeChangesOf(p)) = 1
          /\ Cardinality(ValueChangesOf(p)) = 1

-----------------------------------------------------------------------------
\* C7

MembersOf(node) ==
    CASE node.which = "struct" -> node.fields
      [] node.which = "enum" -> node.enumerants
      [] node.which = "interface" -> node.methods
      [] OTHER -> <<>>

NamesOf(members) == {members[i].name : i \in 1..Len(members)}

\* The pairs of nodes whose member lists the differ compares: the paired structs,
\* enums and interfaces, and the parameter and result structs of the methods that
\* diffMembers pairs by position.
MemberPairs ==
    LET top == {<<NodeById(source, n.id), n>> :
                   n \in {n \in PairedDecls : n.which \in {"struct", "enum", "interface"}}}
        generated(pair) ==
            UNION {{<<NodeById(source, pair[1].methods[i].paramStructType),
                      NodeById(target, pair[2].methods[i].paramStructType)>>,
                    <<NodeById(source, pair[1].methods[i].resultStructType),
                      NodeById(target, pair[2].methods[i].resultStructType)>>} :
                      i \in 1..Min(Len(pair[1].methods), Len(pair[2].methods))}
    IN  top \cup UNION {generated(pair) : pair \in {q \in top : q[2].which = "interface"}}

\* The node_removed changes about the member `name` of the old node.
MemberRemovals(oldNode, name) ==
    Where(LAMBDA c : /\ c.which = "nodeRemoved"
                     /\ c.node.kind \in MemberKinds
                     /\ c.node.id = oldNode.id
                     /\ c.node.shortName = name)

OneRemovedWire(oldNode, name) ==
    /\ Cardinality(MemberRemovals(oldNode, name)) = 1
    /\ \A i \in MemberRemovals(oldNode, name) : result.changes[i].breakage = "wire"

\* The new list is the old one without some members, in the same order.
OnlyRemoves(oldMembers, newMembers) ==
    newMembers = SelectSeq(oldMembers, LAMBDA m : m.name \in NamesOf(newMembers))

WithoutMembers(node) == [node EXCEPT !.fields = <<>>, !.enumerants = <<>>, !.methods = <<>>]

\* The two schemas differ by members only, and each new member list is related to the
\* old one of the same node by R.
DifferByMembers(R(_, _)) ==
    /\ \A o \in NodesOf(source) : o.which = "file" => HasNode(target, o.id)
    /\ \A n \in NodesOf(target) :
          /\ HasNode(source, n.id)
          /\ WithoutMembers(NodeById(source, n.id)) = WithoutMembers(n)
          /\ R(MembersOf(NodeById(source, n.id)), MembersOf(n))

IsPrefix(short, long) ==
    Len(short) <= Len(long) /\ short = SubSeq(long, 1, Len(short))

-----------------------------------------------------------------------------
\* C8

BreakageOf(c) ==
    CASE c.which \in {"nodeAdded", "annotationTargetAdded"} -> "none"
      [] c.which \in {"nodeRenamed", "constValueChanged", "annotationTargetRemoved"} -> "code"
      [] c.which \in {"nodeIdChanged", "memberOrdinalChanged", "fieldDefaultValueChanged",
                      "unsupported"} -> "wire"
      [] c.which = "nodeRemoved" -> IF c.node.kind \in MemberKinds THEN "wire" ELSE "code"
      [] c.which = "nodeTypeChanged" -> IF c.classification = "Compatible" THEN "code" ELSE "wire"

\* C8: every change the differ emits carries the breakage of the table: none for
\* node_added and annotation_target_added; code for node_renamed, const_value_changed
\* and annotation_target_removed; wire for node_id_changed, member_ordinal_changed,
\* field_default_value_changed and unsupported; node_removed is wire exactly when a
\* field, enumerant or method is removed; node_type_changed is code exactly when the
\* types are Compatible.
C8_BreakageTable ==
    /\ \A i \in 1..Len(allChanges) : allChanges[i].breakage = BreakageOf(allChanges[i])
    /\ \A i \in 1..Len(result.changes) :
          result.changes[i].breakage = BreakageOf(result.changes[i])

\* One output holds a removed member (wire) next to a change of another breakage, or
\* a removed node (code), or a Compatible type change (code).
C8_Witness ==
    /\ Done
    /\ \/ \E i, j \in 1..Len(result.changes) :
             /\ result.changes[i].which = "nodeRemoved"
             /\ result.changes[i].node.kind \in MemberKinds
             /\ result.changes[i].breakage = "wire"
             /\ result.changes[j].which = "nodeRenamed"
             /\ result.changes[j].breakage = "code"
       \/ \E i, j \in 1..Len(result.changes) :
             /\ result.changes[i].which = "nodeRemoved"
             /\ result.changes[i].node.kind \in NodeKinds
             /\ result.changes[i].breakage = "code"
             /\ result.changes[j].which = "nodeIdChanged"

-----------------------------------------------------------------------------
\* C9

\* The pairs (old node, new node) that the id-change fallback matches: the old entry's
\* id is gone, and the new parent lists an entry of the same name and kind.
IdChangedPairs ==
    UNION {{<<NodeById(source, e.id),
              NodeById(target, n.nestedNodes[findByName(n.nestedNodes, e.name)].id)>> :
               e \in {e \in EntriesOf(NodeById(source, n.id)) :
                         /\ ~HasNode(target, e.id)
                         /\ findByName(n.nestedNodes, e.name) # 0
                         /\ NodeById(target,
                                     n.nestedNodes[findByName(n.nestedNodes, e.name)].id).which
                               = NodeById(source, e.id).which}} :
           n \in {n \in NodesOf(target) : HasNode(source, n.id)}}

\* C9: an old nested node without id match whose name and kind a nested node of the
\* new parent has yields exactly one node_id_changed (wire) for the pair, no
\* node_removed for the old node and no node_added for the new node.
C9_IdChangeConsumesNewNode ==
    Done =>
        \A pair \in IdChangedPairs :
            /\ Cardinality(Where(LAMBDA c : /\ c.which = "nodeIdChanged"
                                            /\ c.breakage = "wire"
                                            /\ c.node = toNodeRef(pair[2])
                                            /\ c.oldId = pair[1].id)) = 1
            /\ Where(LAMBDA c : c.which = "nodeRemoved" /\ c.node = toNodeRef(pair[1])) = {}
            /\ Where(LAMBDA c : c.which = "nodeAdded" /\ c.node = toNodeRef(pair[2])) = {}

-----------------------------------------------------------------------------
\* C10

\* C10: no node is the subject of two lifecycle changes (node_added, node_removed,
\* node_id_changed, node_renamed) of one diff.
C10_OneLifecycleChangePerNode ==
    Done =>
        \A i, j \in 1..Len(result.changes) :
            (/\ i # j
             /\ result.changes[i].which \in Lifecycle
             /\ result.changes[j].which \in Lifecycle
             /\ result.changes[i].node.kind \in NodeKinds)
                => result.changes[i].node # result.changes[j].node

-----------------------------------------------------------------------------
\* C11

\* The caller runs schemaDiff again with its two arguments exchanged, still holding
\* the SchemaDiff the first call returned.
Swap ==
    /\ pc = "done"
    /\ source' = target
    /\ target' = source
    /\ allChanges' = <<>>
    /\ changedFileNames' = <<>>
    /\ pc' = "diff"
    /\ UNCHANGED <<result, fileSystem>>

NextSwap == Next \/ Swap

InitSwap == Start(NodesPairs \cup MembersPairs \cup TypesPairs)
SpecSwap == InitSwap /\ [][NextSwap]_vars

CountOf(changes, which) == Cardinality({i \in 1..Len(changes) : changes[i].which = which})

\* The second call is about to return: `result` is still the SchemaDiff of the first
\* call (diff(A, B), which reported something) and allChanges holds the sorted changes
\* of diff(B, A).  A first diff that reported nothing is met from the other order,
\* which is an initial state too.
BothDiffed == pc = "package" /\ result # NoResult

SymmetricKinds ==
    {"nodeRenamed", "nodeIdChanged", "memberOrdinalChanged", "nodeTypeChanged",
     "fieldDefaultValueChanged", "constValueChanged"}

Dual(forward, backward, added, removed) ==
    /\ CountOf(forward, added) = CountOf(backward, removed)
    /\ CountOf(forward, removed) = CountOf(backward, added)

-----------------------------------------------------------------------------
\* C12: generics

\* The type of the node with id 10 of a schema of the Types shape: of its field, or of
\* the const or annotation itself.
entityType(schema) ==
    LET node == NodeById(schema, 10)
    IN  IF node.which = "struct" THEN node.fields[1].type ELSE node.type

\* The two entities are typed by a struct, or by an interface, and a brand has scopes.
BrandedTypes ==
    /\ NodeById(source, 10).which = NodeById(target, 10).which
    /\ NodeById(source, 10).which \in {"struct", "const", "annotation"}
    /\ entityType(source).which = entityType(target).which
    /\ entityType(source).which \in {"struct", "interface"}
    /\ entityType(source).brandScopes + entityType(target).brandScopes # 0

\* The two methods have a parameter or result struct whose brand has scopes.
BrandedMethods ==
    /\ NodeById(source, 10).which = "interface"
    /\ NodeById(target, 10).which = "interface"
    /\ NodeById(source, 10).methods[1].paramBrandScopes
          + NodeById(target, 10).methods[1].paramBrandScopes # 0

Diffing == pc \in {"sort", "package", "done", "threw"}

\* C12: when a paired field, const, annotation or method is typed by generic (branded)
\* structs or interfaces, the diff does not abort and holds an unsupported change of
\* breakage wire with a reason.
C12_GenericsAreUnsupportedChanges ==
    (Diffing /\ (BrandedTypes \/ BrandedMethods)) =>
        /\ pc # "threw"
        /\ \E i \in 1..Len(allChanges) :
              /\ allChanges[i].which = "unsupported"
              /\ allChanges[i].breakage = "wire"
              /\ allChanges[i].reason # ""

-----------------------------------------------------------------------------
\* C13: pointers the comparison cannot follow

\* The default value of the field, or the value of the const, with id 10.
entityValue(schema) ==
    LET node == NodeById(schema, 10)
    IN  IF node.which = "struct" THEN node.fields[1].defaultValue ELSE node.value

\* Two AnyPointer values of which one is a far pointer that cannot be resolved, or both
\* are interface pointers.
UnfollowablePointers ==
    /\ NodeById(source, 10).which = NodeById(target, 10).which
    /\ entityValue(source).which = "anyPointer"
    /\ entityValue(target).which = "anyPointer"
    /\ \/ getPointerType(entityValue(source).anyPointer) = "FAR"
       \/ getPointerType(entityValue(target).anyPointer) = "FAR"
       \/ /\ getPointerType(entityValue(source).anyPointer) = "OTHER"
          /\ getPointerType(entityValue(target).anyPointer) = "OTHER"

ValueChangedKinds == {"fieldDefaultValueChanged", "constValueChanged"}

\* C13 as stated: the diff of two values holding such pointers aborts and records
\* nothing.
C13_PointerErrorsAbortTheDiff ==
    (Diffing /\ UnfollowablePointers) => (pc = "threw" /\ allChanges = <<>>)

\* C13: the diff of two values holding such pointers does not abort: it holds exactly
\* one unsupported change of breakage wire and no value-changed change.
C13_PointerErrorsAreUnsupportedChanges ==
    (Diffing /\ UnfollowablePointers) =>
        /\ pc # "threw"
        /\ CountOf(allChanges, "unsupported") = 1
        /\ \A i \in 1..Len(allChanges) :
              /\ allChanges[i].which \notin ValueChangedKinds
              /\ allChanges[i].which = "unsupported" => allChanges[i].breakage = "wire"

C13_Witness ==
    /\ pc = "done"
    /\ UnfollowablePointers
    /\ NodeById(target, 10).which = "const"
    /\ getPointerType(entityValue(source).anyPointer) = "OTHER"
    /\ Len(result.changes) = 1
    /\ result.changes[1].which = "unsupported"

-----------------------------------------------------------------------------
\* C14, C15, C16: the classification of two types

\* The classification of the two types of a paired annotation.
Classified(p) == typeCompatibility(p.oldType, p.newType)

\* C14: two types are classified Same exactly when they are the same type, a paired
\* annotation whose types differ gets a type change, and nothing is classified
\* Equivalent.
C14_SameIffSameType ==
    Done =>
        \A p \in PairedAnnotations :
            /\ Classified(p) = "Same" <=> p.oldType = p.newType
            /\ Classified(p) # "Equivalent"
            /\ p.oldType # p.newType => TypeChangesOf(p) # {}

\* A List(P) became a List(struct S), P not being a struct.
IsUpgrade(p) ==
    /\ p.oldType.which = "list"
    /\ p.newType.which = "list"
    /\ p.oldType.elementType.which # "struct"
    /\ p.newType.elementType.which = "struct"

UpgradedFrom(p) == p.oldType.elementType
UpgradedTo(p) == NodeById(target, p.newType.elementType.typeId)

StartsWithSlot(struct) == struct.fields # <<>> /\ struct.fields[1].which = "slot"

CompatibleKinds(oldType, newType) ==
    \/ newType.which = "anyPointer"
          /\ oldType.which \in {"text", "data", "list", "struct", "interface"}
    \/ newType.which = "uint16" /\ oldType.which = "enum"
    \/ newType.which = "data" /\ oldType.which = "text"
    \/ newType.which = "data" /\ oldType = ListType(Prim("uint8"))
    \/ newType = ListType(Prim("uint8")) /\ oldType.which = "data"

\* C16: two types of different kinds are Compatible for the pairs of the table and
\* Incompatible for every other pair, and the type change of a paired annotation is
\* reported accordingly (code for Compatible, wire for Incompatible).
C16_DifferentKinds ==
    Done =>
        \A p \in {q \in PairedAnnotations : q.oldType.which # q.newType.which} :
            /\ Classified(p) =
                  (IF CompatibleKinds(p.oldType, p.newType) THEN "Compatible"
                   ELSE "Incompatible")
            /\ TypeChangeAsClassified(Classified(p), TypeChangesOf(p))

\* A Data became a List(UInt8) and a UInt16 an enum: code for the first, wire for the
\* second.
C16_Witness ==
    /\ Done
    /\ \E p \in PairedAnnotations :
          /\ p.oldType.which = "data"
          /\ p.newType = ListType(Prim("uint8"))
          /\ \E i \in TypeChangesOf(p) : result.changes[i].breakage = "code"

-----------------------------------------------------------------------------
\* C17, C18, C19: pointer values

PointerKinds == {"struct", "list", "anyPointer"}

\* The paired consts and fields whose two values are pointers of one kind.
PairedPointers ==
    {p \in PairedConsts \cup PairedSlots :
        p.oldValue.which = p.newValue.which /\ p.oldValue.which \in PointerKinds}

pointerIn(value) == value[value.which]

\* The bytes of the data section a struct pointer points to.
dataOf(pointer) ==
    SubSeq(segmentOf(pointer), getContent(pointer).byteOffset + 1,
           getContent(pointer).byteOffset + 8 * getStructDataWords(pointer))

\* The bytes of the elements a pointer to a list of bytes or words points to.
elementsOf(pointer) ==
    SubSeq(segmentOf(pointer), getContent(pointer).byteOffset + 1,
           getContent(pointer).byteOffset
               + getListLength(pointer) * getListElementByteLength(getListElementSize(pointer)))

IsStruct(pointer) == ~isNull(pointer) /\ getPointerType(pointer) = "STRUCT"
IsList(pointer) == getPointerType(pointer) = "LIST"

IsZeroStruct(pointer) ==
    /\ IsStruct(pointer)
    /\ getStructPointerLength(pointer) = 0
    /\ \A k \in 1..Len(dataOf(pointer)) : dataOf(pointer)[k] = 0

IsEmptyList(pointer) == IsList(pointer) /\ getListLength(pointer) = 0

NullAgainstDefault(a, b) == isNull(a) /\ (IsZeroStruct(b) \/ IsEmptyList(b))

\* C17: a null pointer and a pointer to an all-zero struct or to a zero-length list
\* are equal values, in either order, and no value change is reported for them.
C17_NullEqualsDefault ==
    Done =>
        \A p \in PairedPointers :
            (\/ NullAgainstDefault(pointerIn(p.oldValue), pointerIn(p.newValue))
             \/ NullAgainstDefault(pointerIn(p.newValue), pointerIn(p.oldValue)))
                => /\ valuesAreEqual(p.oldValue, p.newValue) = "true"
                   /\ ValueChangesOf(p) = {}
                   /\ UnsupportedOf(p) = {}

\* Two structs of one size without pointers.
SameSizeStructs(a, b) ==
    /\ IsStruct(a)
    /\ IsStruct(b)
    /\ getStructDataWords(a) = getStructDataWords(b)
    /\ getStructPointerLength(a) = 0
    /\ getStructPointerLength(b) = 0

\* C18: two struct values of the same size are equal exactly when their data words
\* are identical, and a value change is reported when they are not.
C18_StructsEqualWordByWord ==
    Done =>
        \A p \in {q \in PairedPointers : q.oldValue.which = "struct"} :
            SameSizeStructs(p.oldValue.struct, p.newValue.struct) =>
                LET same == dataOf(p.oldValue.struct) = dataOf(p.newValue.struct)
                IN  /\ valuesAreEqual(p.oldValue, p.newValue) = (IF same THEN "true" ELSE "false")
                    /\ same <=> ValueChangesOf(p) = {}

\* Two lists of bytes or words of one element size and one length.
SameShapeLists(a, b) ==
    /\ IsList(a)
    /\ IsList(b)
    /\ getListElementSize(a) = getListElementSize(b)
    /\ getListElementSize(a) \in {"BYTE", "BYTE_2", "BYTE_4", "BYTE_8"}
    /\ getListLength(a) = getListLength(b)

\* C19: two lists of the same element size and length are equal exactly when their
\* elements are identical, and a value change is reported when they are not.
C19_ListsEqualElementByElement ==
    Done =>
        \A p \in {q \in PairedPointers : q.oldValue.which = "list"} :
            SameShapeLists(p.oldValue.list, p.newValue.list) =>
                LET same == elementsOf(p.oldValue.list) = elementsOf(p.newValue.list)
                IN  /\ valuesAreEqual(p.oldValue, p.newValue) = (IF same THEN "true" ELSE "false")
                    /\ same <=> ValueChangesOf(p) = {}

-----------------------------------------------------------------------------
\* C20: values of different kinds

PairedValues == PairedConsts \cup PairedSlots

DifferentKinds(p) == p.oldValue.which # p.newValue.which

\* The differ compares the two values.
Compared(p) == typeCompatibility(p.oldType, p.newType) \in {"Same", "Compatible"}

\* The differ turned the error of the comparison into one unsupported change.
OneUnsupported(p) ==
    /\ Cardinality(UnsupportedOf(p)) = 1
    /\ \A i \in UnsupportedOf(p) : result.changes[i].breakage = "wire"
    /\ ValueChangesOf(p) = {}

\* C20 as stated: an enum and a UInt16 are equal exactly when the code is the number,
\* whichever is the old value; any other two values of different kinds raise an error
\* that the differ, where it compares them, turns into one unsupported change.
C20_EnumAgainstUInt16EitherWay ==
    Done =>
        \A p \in {q \in PairedValues : DifferentKinds(q)} :
            IF p.oldValue.which = "enum" /\ p.newValue.which = "uint16"
            THEN valuesAreEqual(p.oldValue, p.newValue)
                     = (IF p.oldValue.enum = p.newValue.uint16 THEN "true" ELSE "false")
            ELSE IF p.oldValue.which = "uint16" /\ p.newValue.which = "enum"
            THEN valuesAreEqual(p.oldValue, p.newValue)
                     = (IF p.oldValue.uint16 = p.newValue.enum THEN "true" ELSE "false")
            ELSE /\ valuesAreEqual(p.oldValue, p.newValue) = "throw"
                 /\ Compared(p) => OneUnsupported(p)

\* C20, amended: an old enum and a new UInt16 are equal exactly when the code is the
\* number; any other two values of different kinds, an old UInt16 and a new enum
\* included, raise an error.  Where the differ compares the values (types Same or
\* Compatible) it turns the error into one unsupported change of breakage wire and
\* reports no value change; where it does not (types Incompatible) it reports neither.
C20_EnumAgainstUInt16OneWay ==
    Done =>
        \A p \in {q \in PairedValues : DifferentKinds(q)} :
            /\ IF p.oldValue.which = "enum" /\ p.newValue.which = "uint16"
               THEN /\ valuesAreEqual(p.oldValue, p.newValue)
                          = (IF p.oldValue.enum = p.newValue.uint16 THEN "true" ELSE "false")
                    /\ UnsupportedOf(p) = {}
                    /\ p.oldValue.enum = p.newValue.uint16 <=> ValueChangesOf(p) = {}
               ELSE /\ valuesAreEqual(p.oldValue, p.newValue) = "throw"
                    /\ Compared(p) => OneUnsupported(p)
            /\ ~Compared(p) => UnsupportedOf(p) = {} /\ ValueChangesOf(p) = {}

\* A Text field became a Data field: the two defaults cannot be compared and the diff
\* holds one unsupported change for the field.
C20_Witness ==
    /\ Done
    /\ \E p \in PairedSlots :
          /\ p.oldValue.which = "text"
          /\ p.newValue.which = "data"
          /\ Compared(p)
          /\ OneUnsupported(p)

-----------------------------------------------------------------------------
\* locateChanges (locate-changes.ts) and schemaDiffWithSourceInfo (mod.ts)
\*
\* A file is a sequence of bytes.  The UInt32 fields of SourceInfo hold the four
\* little-endian bytes of what is stored into them, so that a negative column is the
\* wrapped number the message holds.

LN == 10
CR == 13

\* The loop of splitLines from byte i on, for a line that starts at lineStart: only a
\* line that ends with LN (or CR LN) is pushed.
RECURSIVE splitLinesFrom(_, _, _)
splitLinesFrom(contents, i, lineStart) ==
    IF i >= Len(contents) THEN <<>>
    ELSE IF contents[i + 1] = LN
    THEN <<[startOffset |-> lineStart, lineEnd |-> i]>>
             \o splitLinesFrom(contents, i + 1, i + 1)
    ELSE IF contents[i + 1] = CR /\ i + 1 < Len(contents) /\ contents[i + 2] = LN
    THEN <<[startOffset |-> lineStart, lineEnd |-> i]>>
             \o splitLinesFrom(contents, i + 2, i + 2)
    ELSE splitLinesFrom(contents, i + 1, lineStart)

splitLines(contents) == splitLinesFrom(contents, 0, 0)

\* `while (currentLine < lines.length && byte >= lines[currentLine].startOffset)
\* currentLine++`.
RECURSIVE advanceLine(_, _, _)
advanceLine(lines, currentLine, byte) ==
    IF currentLine < Len(lines) /\ byte >= lines[currentLine + 1].startOffset
    THEN advanceLine(lines, currentLine + 1, byte)
    ELSE currentLine

Position(line, column) == [line |-> U32(line), column |-> U32(column)]

\* One iteration of the loop over the changes of a file, for a change with a range
\* and without snippets: the source info it stores and the line the next change
\* starts from.  With no line at all, lines[currentLine - 1] is undefined and
\* reading its startOffset is a TypeError.
locateChange(change, lines, currentLine) ==
    LET startLine == advanceLine(lines, currentLine, change.startByte)
        endLine == advanceLine(lines, startLine, change.endByte)
    IN  IF startLine = 0 THEN [threw |-> TRUE]
        ELSE [threw |-> FALSE,
              currentLine |-> endLine,
              sourceInfo |->
                  [startPosition |->
                       Position(startLine,
                                change.startByte - lines[startLine].startOffset + 1),
                   endPosition |->
                       Position(endLine + 1,
                                change.endByte - lines[endLine].startOffset + 1)]]

\* `for (const change of changes)` over the sorted changes of one file; `order` holds
\* their positions in the batch.
RECURSIVE locateGroup(_, _, _, _)
locateGroup(changes, order, lines, currentLine) ==
    IF order = <<>> THEN [threw |-> FALSE, changes |-> changes]
    ELSE LET change == changes[Head(order)]
             located == locateChange(change, lines, currentLine)
         IN  IF change.startByte + change.endByte = 0
             THEN locateGroup(changes, Tail(order), lines, currentLine)
             ELSE IF located.threw THEN [threw |-> TRUE, changes |-> changes]
             ELSE locateGroup([changes EXCEPT ![Head(order)] =
                                  change @@ [sourceInfo |-> located.sourceInfo]],
                              Tail(order), lines, located.currentLine)

\* changes.sort((a, b) => a.startByte - b.startByte), a stable sort, as the positions
\* of the sorted changes.
RECURSIVE sortedByStartByte(_, _)
sortedByStartByte(changes, positions) ==
    IF positions = {} THEN <<>>
    ELSE LET first ==
                 CHOOSE i \in positions :
                     \A j \in positions :
                         \/ changes[i].startByte < changes[j].startByte
                         \/ changes[i].startByte = changes[j].startByte /\ i <= j
         IN  <<first>> \o sortedByStartByte(changes, positions \ {first})

\* Deno.readFile(file) is fulfilled.
isOnDisk(file) == \E k \in 1..Len(fileSystem) : fileSystem[k].path = file

readFile(file) == fileSystem[CHOOSE k \in 1..Len(fileSystem) : fileSystem[k].path = file].contents

\* The loop over changesByFileName: the groups in the order of their file names, the
\* group of the changes without a file and the groups of unreadable files skipped.
RECURSIVE locateFiles(_, _, _)
locateFiles(changes, files, fileMap) ==
    IF files = {} THEN [threw |-> FALSE, changes |-> changes]
    ELSE LET file == CHOOSE a \in files : \A b \in files : localeCompare(a, b) <= 0
             group == {i \in 1..Len(changes) : mapGet(fileMap, changes[i].fileId) = file}
             located == locateGroup(changes, sortedByStartByte(changes, group),
                                    splitLines(readFile(file)), 0)
         IN  IF file = Undefined \/ ~isOnDisk(file)
             THEN locateFiles(changes, files \ {file}, fileMap)
             ELSE IF located.threw THEN located
             ELSE locateFiles(located.changes, files \ {file}, fileMap)

locateChanges(changes, fileMap) ==
    locateFiles(changes, {mapGet(fileMap, changes[i].fileId) : i \in 1..Len(changes)}, fileMap)

\* mod.ts 80-83: the promise of locateChanges is fulfilled, or rejected.
Located(outcome) ==
    IF outcome.threw
    THEN pc' = "rejected" /\ UNCHANGED result
    ELSE pc' = "located" /\ result' = [result EXCEPT !.changes = outcome.changes]

\* schemaDiffWithSourceInfo after its call of schemaDiff, without snippets.
LocateChanges ==
    /\ pc = "done"
    /\ Located(locateChanges(result.changes, result.files))
    /\ UNCHANGED <<source, target, allChanges, changedFileNames, fileSystem>>

NextLocate == Next \/ LocateChanges

\* --- Locations: the old schema declares the structs A (10) and B (11) in its one
\* file, each at a range of the file; the new schema declares neither.  The file
\* holds MaxBytes bytes, or is not on disk.
MaxBytes == 3

LocatePath == <<3>>

Ranges == {r \in (0..MaxBytes) \X (0..MaxBytes) : r[1] <= r[2]}

LocateOld(rangeA, rangeB) ==
    Schema(<<FileNode(1, LocatePath, <<Nested(NameA, 10), Nested(NameB, 11)>>),
             [DeclNode(10, "struct", LocatePath, NameA, 1, rangeA[1]) EXCEPT
                 !.endByte = rangeA[2]],
             [DeclNode(11, "struct", LocatePath, NameB, 1, rangeB[1]) EXCEPT
                 !.endByte = rangeB[2]]>>,
           <<>>)

LocateNew == Schema(<<FileNode(1, LocatePath, <<>>)>>, <<>>)

LocatePairs == {<<LocateOld(a, b), LocateNew>> : a \in Ranges, b \in Ranges}

Bytes == {LN, CR, 97}

Contents == {c \in Lists(Bytes, MaxBytes) : Len(c) = MaxBytes}

LocateFileSystems ==
    {NoFiles} \cup {<<[path |-> LocatePath, contents |-> c]>> : c \in Contents}

InitLocate == StartOn(LocatePairs, LocateFileSystems)
SpecLocate == InitLocate /\ [][NextLocate]_vars

-----------------------------------------------------------------------------
\* C21, C22

\* The 1-based line and column of byte offset b: a line ends with its LN.
lineStartOf(contents, b) ==
    LET starts == {0} \cup {i \in 1..b : contents[i] = LN}
    IN  CHOOSE i \in starts : \A j \in starts : j <= i

lineOf(contents, b) == 1 + Cardinality({i \in 1..b : contents[i] = LN})

columnOf(contents, b) == b - lineStartOf(contents, b) + 1

contentsOf(change) == readFile(mapGet(result.files, change.fileId))

\* The changes of the batch the claims speak of: a non-zero range in a readable file,
\* here with both ends of the range in lines that end with a line feed (splitLines
\* keeps no line for what follows the last line feed).
Locatable(change) ==
    /\ change.startByte + change.endByte # 0
    /\ mapGet(result.files, change.fileId) # Undefined
    /\ isOnDisk(mapGet(result.files, change.fileId))
    /\ \E i \in (change.endByte + 1)..Len(contentsOf(change)) : contentsOf(change)[i] = LN

\* C21: once locateChanges has returned, every change with a non-zero range in a
\* readable file has a startPosition that is the 1-based line of its startByte and
\* the 1-based column of its startByte in that line, whatever the other changes of
\* the batch are.
C21_StartPositionOfStartByte ==
    pc = "located" =>
        \A i \in 1..Len(result.changes) :
            Locatable(result.changes[i]) =>
                /\ "sourceInfo" \in DOMAIN result.changes[i]
                /\ result.changes[i].sourceInfo.startPosition =
                       Position(lineOf(contentsOf(result.changes[i]),
                                       result.changes[i].startByte),
                                columnOf(contentsOf(result.changes[i]),
                                         result.changes[i].startByte))

\* The range of the change lies within one line.
WithinOneLine(change) ==
    lineOf(contentsOf(change), change.startByte) = lineOf(contentsOf(change), change.endByte)

\* C22: once locateChanges has returned, the endPosition of every located change is
\* the 1-based line of its endByte and the 1-based column of its endByte in that
\* line, and a change whose range lies within one line ends on the line it starts on.
C22_EndPositionOfEndByte ==
    pc = "located" =>
        \A i \in 1..Len(result.changes) :
            Locatable(result.changes[i]) =>
                /\ "sourceInfo" \in DOMAIN result.changes[i]
                /\ result.changes[i].sourceInfo.endPosition =
                       Position(lineOf(contentsOf(result.changes[i]),
                                       result.changes[i].endByte),
                                columnOf(contentsOf(result.changes[i]),
                                         result.changes[i].endByte))
                /\ WithinOneLine(result.changes[i]) =>
                       result.changes[i].sourceInfo.endPosition.line =
                           result.changes[i].sourceInfo.startPosition.line

-----------------------------------------------------------------------------
\* C23, C24, C25: member diffing

\* The pairs of nodes whose member lists go through diffMembers.
DiffedMembers == {pair \in MemberPairs : pair[2].which \in {"struct", "interface"}}

MemberKindOf(node) == IF node.which = "struct" THEN "field" ELSE "method"

\* The ordinal of the member at position i (from 0) of the node.
OrdinalAt(node, i) == ordinalOf(MemberKindOf(node), MembersOf(node)[i + 1], i)

\* The positions (from 0) the first loop of diffMembers visits.
CommonPositions(pair) == 0..(Min(Len(MembersOf(pair[1])), Len(MembersOf(pair[2]))) - 1)

\* The lowest other position of the new list that holds the name of old[i], or -1.
OrdinalTarget(pair, i) == findOtherIndex(MembersOf(pair[2]), i, MembersOf(pair[1])[i + 1].name)

\* Position i of the pair takes the ordinal-change branch.
IsOrdinalChange(pair, i) ==
    /\ MembersOf(pair[1])[i + 1].name # MembersOf(pair[2])[i + 1].name
    /\ OrdinalTarget(pair, i) # -1

\* The changes of kind `which` about the member `name` of the node.
MemberChanges(which, node, name) ==
    Where(LAMBDA c : /\ c.which = which
                     /\ c.node.kind \in MemberKinds
                     /\ c.node.id = node.id
                     /\ c.node.shortName = name)

\* C23: when old[i] and new[i] differ in name and new[j], j # i the lowest such, has
\* the name of old[i], the diff holds exactly one member_ordinal_changed (wire) for
\* the name of new[j]; it carries the ordinal of new[j] and, as oldOrdinal, the
\* ordinal of old[i]; and new[j], being consumed, is not reported as added.
C23_OrdinalChangeNamesTheMatchingMember ==
    Done =>
        \A pair \in DiffedMembers :
            \A i \in CommonPositions(pair) :
                IsOrdinalChange(pair, i) =>
                    LET j == OrdinalTarget(pair, i)
                        name == MembersOf(pair[2])[j + 1].name
                        changed == MemberChanges("memberOrdinalChanged", pair[2], name)
                    IN  /\ Cardinality(changed) = 1
                        /\ \A k \in changed :
                              /\ result.changes[k].breakage = "wire"
                              /\ result.changes[k].node.ordinal = OrdinalAt(pair[2], j)
                              /\ result.changes[k].oldOrdinal = OrdinalAt(pair[1], i)
                        /\ MemberChanges("nodeAdded", pair[2], name) = {}

\* The new-member position the first loop consumes at position i of the pair.
Consumed(pair, i) == seenPosition(MembersOf(pair[1]), MembersOf(pair[2]), i)

\* C24: over member lists without repeated names no new member position is consumed
\* for two old members: the target of an ordinal change is not also matched by
\* position (same name or rename), before or after.
C24_NewMemberPairedOnce ==
    Diffing =>
        \A pair \in DiffedMembers :
            \A i, k \in CommonPositions(pair) :
                (i # k /\ IsOrdinalChange(pair, i) /\ ~IsOrdinalChange(pair, k))
                    => Consumed(pair, i) # Consumed(pair, k)

\* The new list holds the names of the old one, in another order or the same.
IsReordering(pair) ==
    /\ Len(MembersOf(pair[1])) = Len(MembersOf(pair[2]))
    /\ NamesOf(MembersOf(pair[1])) = NamesOf(MembersOf(pair[2]))

\* C25: member diffing reports as added only new members whose name the old list
\* lacks, reports no member name both as removed and as added, and reports neither an
\* addition nor a removal when the new list is a reordering of the old one.
C25_AddedAreNewNames ==
    Done =>
        \A pair \in DiffedMembers :
            /\ \A name \in NamesOf(MembersOf(pair[2])) :
                  MemberChanges("nodeAdded", pair[2], name) # {}
                      => /\ name \notin NamesOf(MembersOf(pair[1]))
                         /\ MemberChanges("nodeRemoved", pair[1], name) = {}
            /\ IsReordering(pair) =>
                  \A name \in NamesOf(MembersOf(pair[2])) :
                      /\ MemberChanges("nodeAdded", pair[2], name) = {}
                      /\ MemberChanges("nodeRemoved", pair[1], name) = {}

-----------------------------------------------------------------------------
\* C26: a node whose kind changed

\* --- Kind changes: the file of the Members family, whose node 10 is a struct, an
\* enum or an interface under one of two names, with at most one member and at most
\* one nested struct C (id 20 or 21).  The side table, when there is one, places the
\* node at bytes 50..60, not at the range the node holds.
ChangedKinds == {"struct", "enum", "interface"}

SideTables == {FALSE, TRUE}

KindChangeSchema(which, name, names, inner, sideTable) ==
    LET members == MembersSchema(which, names, <<>>)
        declared ==
            [members.nodes[2] EXCEPT
                !.displayName = MembersPath \o <<0>> \o name,
                !.nestedNodes = IF inner = 0 THEN <<>> ELSE <<Nested(NameC, inner)>>]
        innerNode ==
            IF inner = 0 THEN <<>>
            ELSE <<[DeclNode(inner, "struct", MembersPath, NameC, 10, inner) EXCEPT
                       !.displayName = MembersPath \o <<0>> \o name \o <<0>> \o NameC,
                       !.displayNamePrefixLength = Len(MembersPath) + Len(name) + 2]>>
    IN  Schema(<<FileNode(1, MembersPath, <<Nested(name, 10)>>), declared>>
                   \o SubSeq(members.nodes, 3, Len(members.nodes)) \o innerNode,
               IF sideTable THEN <<SourceInfo(10, 50, 60, MemberLocs(names))>> ELSE <<>>)

KindChangeSchemas ==
    {KindChangeSchema(which, name, names, inner, sideTable) :
        which \in ChangedKinds, name \in {NameA, NameB},
        names \in DistinctLists({NameA, NameB}, 1), inner \in InnerIds,
        sideTable \in SideTables}

KindChangePairs == KindChangeSchemas \X KindChangeSchemas

InitKindChange == Start(KindChangePairs)
SpecKindChange == InitKindChange /\ [][Next]_vars

\* The nodes the differ pairs by id although their kinds differ.
KindChanged ==
    {n \in NodesOf(target) :
        /\ n.which # "file"
        /\ HasParent(target, n.id)
        /\ HasNode(source, n.id)
        /\ HasParent(source, n.id)
        /\ NodeById(source, n.id).which # n.which}

\* The changes about the node `id` or about one of its members.
ChangesAbout(id) == Where(LAMBDA c : c.node.id = id)

\* The changes of kind `which` whose subject is the node reference `ref`.
ChangesOf(which, ref) == Where(LAMBDA c : c.which = which /\ c.node = ref)

\* C26: for a node paired by id whose kind changed, the diff holds exactly one
\* node_removed (code) for the old node and one node_added (none) for the new node
\* and nothing else about the node or its members (no rename, no member change), and
\* the nested nodes of the two are still diffed: a nested node only the old one has
\* is reported as removed or as having changed its id, and one only the new one has
\* as added.
C26_KindChangeIsRemovalAndAddition ==
    Done =>
        \A n \in KindChanged :
            LET o == NodeById(source, n.id)
            IN  /\ Cardinality(ChangesOf("nodeRemoved", toNodeRef(o))) = 1
                /\ \A k \in ChangesOf("nodeRemoved", toNodeRef(o)) :
                      result.changes[k].breakage = "code"
                /\ Cardinality(ChangesOf("nodeAdded", toNodeRef(n))) = 1
                /\ \A k \in ChangesOf("nodeAdded", toNodeRef(n)) :
                      result.changes[k].breakage = "none"
                /\ ChangesAbout(n.id) =
                       ChangesOf("nodeRemoved", toNodeRef(o))
                           \cup ChangesOf("nodeAdded", toNodeRef(n))
                /\ \A e \in EntriesOf(o) :
                      ~HasNode(target, e.id) =>
                          \/ ChangesOf("nodeRemoved", toNodeRef(NodeById(source, e.id))) # {}
                          \/ Where(LAMBDA c : c.which = "nodeIdChanged" /\ c.oldId = e.id) # {}
                /\ \A e \in EntriesOf(n) :
                      ~HasNode(source, e.id) =>
                          ChangesOf("nodeAdded", toNodeRef(NodeById(target, e.id))) # {}

\* The kind and the name of a node changed, both nodes have a member, and each has a
\* nested node the other lacks.
C26_Witness ==
    /\ Done
    /\ \E n \in KindChanged :
          LET o == NodeById(source, n.id)
          IN  /\ shortName(o) # shortName(n)
              /\ MembersOf(o) # <<>>
              /\ MembersOf(n) # <<>>
              /\ \E e \in EntriesOf(o) : ~HasNode(target, e.id)
              /\ \E e \in EntriesOf(n) : ~HasNode(source, e.id)

-----------------------------------------------------------------------------
\* C27: generic methods and implicit parameters

\* --- Methods: the file of the Types family with an interface (id 10) of at most two
\* methods named A and B, each plain, generic in its parameters, generic in its
\* results, or with implicit parameters; the parameter and result struct is T (15).
MethodFlavours ==
    {[paramBrandScopes |-> 0, resultBrandScopes |-> 0, implicitParameters |-> 0],
     [paramBrandScopes |-> 1, resultBrandScopes |-> 0, implicitParameters |-> 0],
     [paramBrandScopes |-> 0, resultBrandScopes |-> 1, implicitParameters |-> 0],
     [paramBrandScopes |-> 0, resultBrandScopes |-> 0, implicitParameters |-> 1]}

MethodOf(name, flavour) ==
    [Method(name, 15, 15, flavour.paramBrandScopes, flavour.implicitParameters) EXCEPT
        !.resultBrandScopes = flavour.resultBrandScopes]

MethodLists ==
    UNION {{[k \in 1..Len(names) |-> MethodOf(names[k], flavours[k])] :
               flavours \in [1..Len(names) -> MethodFlavours]} :
              names \in DistinctLists({NameA, NameB}, MaxMembers - 1)}

MethodsSchemas ==
    {TypesSchema([DeclNode(10, "interface", TypesPath, NameA, 1, 10) EXCEPT
                     !.methods = methods], <<>>) :
        methods \in MethodLists}

MethodsPairs == MethodsSchemas \X MethodsSchemas

InitMethods == Start(MethodsPairs)
SpecMethods == InitMethods /\ [][Next]_vars

\* The method is generic or has implicit parameters.
IsRejected(method) ==
    method.paramBrandScopes + method.resultBrandScopes # 0 \/ method.implicitParameters # 0

oldMethods == NodeById(source, 10).methods
newMethods == NodeById(target, 10).methods

-----------------------------------------------------------------------------
\* C28: the location of a change

\* The schema whose file a change is located in: the old one for a removal.
LocatedIn(change) == IF change.which = "nodeRemoved" THEN source ELSE target

RangeOf(change) == [startByte |-> change.startByte, endByte |-> change.endByte]

\* The range of a node: its side-table entry when it has one, its inline range
\* otherwise.
NodeRange(schema, id) ==
    IF HasLoc(schema, nodeKey(id)) THEN LocById(schema, nodeKey(id))
    ELSE Loc(NodeById(schema, id))

\* C28: a change about a node (files aside) is located at the node's side-table range
\* when the table has an entry for the node and at the node's inline range otherwise;
\* a change about a member is located at the member's side-table range when a
\* non-zero one was recorded, and otherwise at a range of its parent node.
C28_SideTableBeforeInlineRange ==
    Done =>
        \A k \in 1..Len(result.changes) :
            LET change == result.changes[k]
                schema == LocatedIn(change)
                key == memberId(change.node.id, change.node.ordinal)
            IN  /\ change.node.kind \in NodeKinds \ {"file"} =>
                      RangeOf(change) = NodeRange(schema, change.node.id)
                /\ change.node.kind \in MemberKinds =>
                      IF HasLoc(schema, key)
                      THEN RangeOf(change) = LocById(schema, key)
                      ELSE RangeOf(change) \in {NodeRange(schema, change.node.id),
                                                Loc(NodeById(schema, change.node.id))}

-----------------------------------------------------------------------------
\* C29: member references

\* The kind of reference of a member of a node of that kind.
MemberRefKind(which) ==
    CASE which = "struct" -> "field"
      [] which = "enum" -> "enumerant"
      [] which = "interface" -> "method"
      [] OTHER -> ""

\* C29: a member reference carried by a node_renamed, node_removed, node_added or
\* member_ordinal_changed change has the id of the member's parent node, the kind of
\* the parent's members (field, enumerant, method) and, with the member's name, the
\* ordinal of that member of the parent.
C29_MemberRefsHaveTheMemberKind ==
    Done =>
        \A k \in 1..Len(result.changes) :
            LET change == result.changes[k]
                schema == LocatedIn(change)
            IN  (/\ change.which \in {"nodeRenamed", "nodeRemoved", "nodeAdded",
                                      "memberOrdinalChanged"}
                 /\ change.node.kind \in MemberKinds)
                    => /\ HasNode(schema, change.node.id)
                       /\ change.node.kind = MemberRefKind(NodeById(schema, change.node.id).which)
                       /\ \E i \in 1..Len(MembersOf(NodeById(schema, change.node.id))) :
                             /\ MembersOf(NodeById(schema, change.node.id))[i].name =
                                    change.node.shortName
                             /\ OrdinalAt(NodeById(schema, change.node.id), i - 1) =
                                    change.node.ordinal

-----------------------------------------------------------------------------
\* C30: schemaDiff returns

\* C30: for schemas without generics and implicit parameters whose ids all resolve,
\* files added or removed next to other changes included, schemaDiff does not throw,
\* and the result it returns holds every change the differ emitted and one file entry
\* with a path for every file id the changes carry.
C30_SchemaDiffReturns ==
    /\ pc # "threw"
    /\ Done =>
          /\ Len(result.changes) = Len(allChanges)
          /\ \A i \in 1..Len(allChanges) :
                \E k \in 1..Len(result.changes) : result.changes[k] = allChanges[i]
          /\ \A i \in 1..Len(result.changes) :
                \E k \in 1..Len(result.files) :
                    /\ result.files[k].id = result.changes[i].fileId
                    /\ result.files[k].path # Undefined

====
